---------------------------- MODULE Spec2Model ----------------------------
(***************************************************************************)
(* Run lifecycle and event log of agent-runner.                            *)
(*                                                                         *)
(* The committed database is `runs` (the runs table) and `events` (the     *)
(* events table; an event's id is its position in the sequence).  The      *)
(* engine is SQLite (app/database.py), which serialises write              *)
(* transactions: between a session's first write and its commit no other   *)
(* session writes, and readers see committed rows only.  One action of the *)
(* model is therefore one transaction of the code, from the statements     *)
(* that fill it to the db.commit() that ends it, and event ids are handed  *)
(* out in commit order.                                                    *)
(*                                                                         *)
(* Failures are injected, at most MaxFaults of them: a statement or a      *)
(* blocking call raises (the session stays usable), or the flush inside    *)
(* _log_event raises and is swallowed there, which leaves the SQLAlchemy   *)
(* session inactive: every later statement on it, the commit included,     *)
(* raises until db.rollback().                                             *)
(***************************************************************************)
EXTENDS Integers, Sequences, FiniteSets, TLC

\* ------------------------------------------------------------- bounds
\* failures injected into one behaviour
MaxFaults == 2

\* largest after_id a tail consumer first connects with
MaxAfter == 2

\* seconds a generate request waits for its response at most (OLLAMA_TIMEOUT)
MaxWait == 6

\* heartbeat_thread.join(timeout=1)
JoinTimeout == 1

\* keepalive_interval of event_generator, in polls
KeepaliveInterval == 15

\* calls a caller makes on its session (_log_event, commit, rollback)
MaxOps == 5

\* start() and stop() calls on a BackgroundWorker
MaxCalls == 4

\* self.thread.join(timeout=10), in seconds
StopTimeout == 10

\* check_interval of the BackgroundWorker, in seconds (WORKER_CHECK_INTERVAL)
CheckInterval == 5

\* control requests (pause / resume / stop)
MaxCtl == 1

\* directives posted
MaxDirectives == 1

\* execute_run calls made outside process_queued_runs
MaxDirect == 1

\* largest max_runs of a process_queued_runs call
MaxBatch == 2

\* the runs created and the worker threads
Runs == {1, 2}
Workers == {1, 2}

\* a run id no row has
NoRun == Cardinality(Runs) + 1

VARIABLES
    runs,       \* runs table: [status, current_iteration, run_type, options] per run id
    events,     \* events table: sequence of [run_id, type]; id = index
    pc,         \* per worker: where it is in process_queued_runs / execute_run
    cur,        \* per worker: run_id of the execute_run call in progress
    batch,      \* per worker: queued_runs still to be iterated
    sess,       \* per worker: state of the call's session, "active" | "inactive"
    success,    \* per worker: the local `success` of execute_run
    dirty,      \* per worker: current_iteration set on the Run object, not yet flushed
    wfstep,     \* per worker: index of the workflow step in progress
    updated,    \* per worker: rows affected by the call's conditional update (2: none yet)
    result,     \* per worker: outcome of the last execute_run call
    faultsLeft, \* failures that may still be injected
    api,        \* control_run or create_run request between its two commits, or NoReq
    ctlLeft,    \* control requests still to come
    dirLeft,    \* directives still to come
    directLeft, \* direct execute_run calls still to come
    tail,       \* the tail consumer: [conn, run, start, cursor, received]
    claimed,    \* history: per run, the conditional updates that affected its row
    lost,       \* history: per run, the conditional updates that affected no row
    preempted,  \* history: per run, its status was written while QUEUED by something other than a claim
    raisedAt,   \* history: per run, the workflow step whose executor raised (0: none)
    ctlAt,      \* history: per run, where it was when a pause or stop was committed: "queued", "executing"
    selected,   \* history: per worker, the runs the current process_queued_runs selected
    selmax,     \* history: per worker, the max of the current process_queued_runs
    attempted,  \* history: per worker, the runs execute_run was called on in this invocation
    notQueued,  \* history: per worker, the call's conditional update found no QUEUED row
    failed,     \* history: per worker, something raised in the call after its claim
    secondary,  \* history: per worker, the handler's own write of FAILED raised
    provider,   \* the LLM provider WorkflowEngine holds
    workflow,   \* the steps of the workflow get_workflow returns
    exits,      \* the outcomes the command of a shell step can have
    results,    \* per worker: results["steps"] of execute_workflow
    artifacts,  \* per worker: results["artifacts"] of execute_workflow, the step names
    gpc,        \* generate: where its calling thread is
    event_callback,      \* generate: a progress callback was passed
    heartbeat_interval,  \* generate: self._heartbeat_interval, in seconds
    heartbeat_stop,      \* generate: the threading.Event is set
    heartbeat_thread,    \* generate: "none", or where heartbeat_worker is
    now,        \* generate: seconds since start_time
    hbDue,      \* generate: when heartbeat_stop.wait(interval) times out
    joinDue,    \* generate: when heartbeat_thread.join(timeout=1) times out
    emitted,    \* generate: the calls of event_callback, [type, elapsed], in order
    outcome,    \* generate: how requests.post and the response checks ended
    slow,       \* history: a second passed while a HEARTBEAT callback was running
    env_models, \* OLLAMA_PLANNER_MODEL and OLLAMA_CODER_MODEL of the environment
    applied,    \* the last call of apply_model_overrides: its arguments and result
    session,    \* a caller's database session and the transaction it holds
    bw,         \* a BackgroundWorker, its caller and the worker-loop threads it started
    resp        \* the response of the last API request that returns one

vars == <<runs, events, pc, cur, batch, sess, success, dirty, wfstep, updated,
          result, faultsLeft, api, ctlLeft, dirLeft, directLeft, tail, claimed, lost,
          preempted, ctlAt, raisedAt, selected, selmax, attempted, notQueued, failed, secondary,
          provider, workflow, exits, results, artifacts, gpc, event_callback, heartbeat_interval,
          heartbeat_stop, heartbeat_thread, now, hbDue, joinDue, emitted, outcome, slow,
          env_models, applied, session, bw, resp>>

\* run: the row written; name: the action as the path gives it; action: the
\* action after lower()
NoReq == [run |-> 0, name |-> "none", action |-> "none"]

\* op: the route; run, given, after, text: its arguments; create: the arguments of
\* create_run; at: the size of the events table when it was served; code: the HTTP
\* status; body: the rows returned
NoResp == [op |-> "none", run |-> 0, given |-> FALSE, after |-> 0, text |-> "", at |-> 0,
           code |-> 0, body |-> <<>>,
           create |-> [project |-> FALSE, provider |-> "", model |-> "", run_type |-> "none",
                       healthy |-> {}]]

\* conn: connected; run: the run tailed; start: the consumer's first cursor;
\* cursor: the generator's cursor; received: the event ids delivered, in order;
\* resumed: the consumer has reconnected; keepalive_counter: the generator's
\* counter; delivered: an event was yielded since the counter was last 0;
\* keepalive: whether the last iteration yielded the keepalive comment, "idle"
\* when none of the KeepaliveInterval iterations before it yielded an event,
\* "busy" when one did, else "none"
NoTail == [conn |-> FALSE, run |-> 0, start |-> 0, cursor |-> 0, received |-> <<>>,
           resumed |-> FALSE, keepalive_counter |-> 0, delivered |-> FALSE,
           keepalive |-> "none"]

\* None, a key a dict does not have, a variable the environment does not have
Absent == "<absent>"

\* the keys a "models" dict of the run options may have
OverrideKeys == {"planner", "coder", "maven_test"}

\* a "models" dict without keys
NoModels == [k \in OverrideKeys |-> Absent]

\* the options create_run stores when the request names no provider and no model
DefaultOptions ==
    [provider |-> "ollama", model |-> "gemma3:27b", workflow_name |-> "", models |-> NoModels]

\* the workflow_name option of a workflow run: absent, or an unregistered name
WorkflowNames == {"", "nope"}

\* an id of the runs table that has no row yet
NoRow == [status |-> "ABSENT", current_iteration |-> 0, run_type |-> "none",
          options |-> [provider |-> "", model |-> "", workflow_name |-> "", models |-> NoModels]]

\* The state after the runs of a type other than "none" were created through
\* the API (each QUEUED, with its RUN_CREATED event), with the worker threads
\* `on` started.
\* the steps of quarkus-bootstrap-v1: planner, coder, maven_test
WorkflowSteps ==
    << [name |-> "planner", type |-> "llm_generate", model |-> "gemma3:27b",
        output_file |-> TRUE, save_artifact |-> FALSE],
       [name |-> "coder", type |-> "llm_generate", model |-> "qwen3-coder:latest",
        output_file |-> TRUE, save_artifact |-> TRUE],
       [name |-> "maven_test", type |-> "maven_command", model |-> Absent,
        output_file |-> FALSE, save_artifact |-> TRUE] >>

\* OLLAMA_PLANNER_MODEL and OLLAMA_CODER_MODEL are not set
NoEnv == [k \in {"planner", "coder"} |-> Absent]

\* apply_model_overrides was not called
NoCall == [called |-> FALSE, workflow |-> <<>>, model_overrides |-> NoModels, steps |-> <<>>]

\* state: "active", or "inactive" after a failed flush (every statement raises
\* until rollback); pending: the events flushed in the open transaction, not
\* committed; ops: the calls made on the session; last: how the last call
\* ended; raised: the last call raised to its caller; dropped: history, the
\* events of transactions that were rolled back
NoSession == [state |-> "active", pending |-> <<>>, ops |-> 0, last |-> "none",
              raised |-> FALSE, dropped |-> {}]

\* the threads a BackgroundWorker may create
LoopThreads == {1, 2}

\* BackgroundWorker.__init__.  running, thread: the attributes (0: None); call:
\* what the thread that calls start() and stop() is in; calls: the calls made;
\* wait: seconds until join(timeout=10) gives up; loops: per thread, where its
\* _worker_loop is ("none": not created) and the seconds its blocking call
\* still takes
NoWorker == [running |-> FALSE, thread |-> 0, call |-> "idle", calls |-> 0, wait |-> 0,
             loops |-> [t \in LoopThreads |-> [at |-> "none", left |-> 0]]]

\* wfs: the step lists get_workflow may hold for a registered name; rcs: the sets
\* of outcomes the commands of shell steps may have; ovs: the "models" dicts the
\* options of a workflow run may hold; envs: the environments.
InitWith(types, on, provs, nf, nc, nd, nx, wfs, rcs, ovs, envs) ==
    /\ \E names \in [Runs -> WorkflowNames] : \E ms \in ovs :
          runs = [r \in Runs |->
                    IF types[r] = "none" THEN NoRow
                    ELSE [status |-> "QUEUED", current_iteration |-> 0,
                          run_type |-> types[r],
                          options |-> [DefaultOptions EXCEPT
                                          !.workflow_name =
                                              IF types[r] = "workflow" THEN names[r] ELSE "",
                                          !.models =
                                              IF types[r] = "workflow" THEN ms ELSE NoModels]]]
    /\ events = LET Created(e) == types[e.run_id] # "none"
                IN  SelectSeq([r \in Runs |-> [run_id |-> r, type |-> "RUN_CREATED",
                                               payload |-> "-"]], Created)
    /\ pc = [w \in Workers |-> IF w \in on THEN "idle" ELSE "off"]
    /\ cur = [w \in Workers |-> 0]
    /\ batch = [w \in Workers |-> <<>>]
    /\ sess = [w \in Workers |-> "active"]
    /\ success = [w \in Workers |-> FALSE]
    /\ dirty = [w \in Workers |-> FALSE]
    /\ wfstep = [w \in Workers |-> 0]
    /\ updated = [w \in Workers |-> 2]
    /\ result = [w \in Workers |-> "none"]
    /\ faultsLeft = nf
    /\ api = NoReq
    /\ ctlLeft = nc
    /\ dirLeft = nd
    /\ directLeft = nx
    /\ tail = NoTail
    /\ claimed = [r \in Runs |-> 0]
    /\ lost = [r \in Runs |-> 0]
    /\ preempted = [r \in Runs |-> FALSE]
    /\ ctlAt = [r \in Runs |-> {}]
    /\ raisedAt = [r \in Runs |-> 0]
    /\ selected = [w \in Workers |-> {}]
    /\ selmax = [w \in Workers |-> 0]
    /\ attempted = [w \in Workers |-> {}]
    /\ notQueued = [w \in Workers |-> FALSE]
    /\ failed = [w \in Workers |-> FALSE]
    /\ secondary = [w \in Workers |-> FALSE]
    /\ provider \in provs
    /\ workflow \in wfs
    /\ exits \in rcs
    /\ results = [w \in Workers |-> <<>>]
    /\ artifacts = [w \in Workers |-> <<>>]
    /\ gpc = "idle"
    /\ event_callback = FALSE
    /\ heartbeat_interval = 0
    /\ heartbeat_stop = FALSE
    /\ heartbeat_thread = "none"
    /\ now = 0
    /\ hbDue = 0
    /\ joinDue = 0
    /\ emitted = <<>>
    /\ outcome = "none"
    /\ slow = FALSE
    /\ env_models \in envs
    /\ applied = NoCall
    /\ session = NoSession
    /\ bw = NoWorker
    /\ resp = NoResp

\* the registry as the repository defines it, with commands that exit with 0
InitState(types, on, provs, nf, nc, nd, nx) ==
    InitWith(types, on, provs, nf, nc, nd, nx, {WorkflowSteps}, {{"zero"}}, {NoModels}, {NoEnv})

\* ------------------------------------------------------------ helpers

\* an events row; "-" stands for the payload the code derives for the type
EventWith(r, t, p) == [run_id |-> r, type |-> t, payload |-> p]

Event(r, t) == EventWith(r, t, "-")

HasEvent(r, t) == \E i \in 1..Len(events) : events[i] = Event(r, t)

CountEvents(evs, r, t) == Cardinality({i \in 1..Len(evs) : evs[i] = Event(r, t)})

LogEventReplacing(evs, e) ==
    IF evs # <<>> /\ evs[Len(evs)].run_id = e.run_id
    THEN [evs EXCEPT ![Len(evs)] = e]
    ELSE Append(evs, e)

\* _log_event: db.add of a new Event row, which gets the next id
LogEvent(evs, e) == Append(evs, e)

SetStatus(rs, r, s) == [rs EXCEPT ![r].status = s]

SetIterationNext(rs, r, k) == [rs EXCEPT ![r].current_iteration = k + 1]

\* run.current_iteration = k
SetIteration(rs, r, k) == [rs EXCEPT ![r].current_iteration = k]

\* A transaction of worker w commits: its row changes and its events become
\* visible together.
Commits(w, newRuns, newEvents) ==
    /\ sess[w] = "active"
    /\ runs' = newRuns
    /\ events' = newEvents
    /\ UNCHANGED <<sess, faultsLeft>>

\* A transaction of worker w raises and nothing of it is committed: its session
\* is already inactive, or a failure is injected.  A raising statement, blocking
\* call or commit leaves the session active; when the transaction logs an event
\* (`logs`), the flush inside _log_event may fail and be swallowed there, which
\* leaves the session inactive and makes the commit raise.
Raises(w, logs) ==
    /\ UNCHANGED <<runs, events>>
    /\ \/ sess[w] = "inactive" /\ UNCHANGED <<sess, faultsLeft>>
       \/ /\ sess[w] = "active"
          /\ faultsLeft > 0
          /\ faultsLeft' = faultsLeft - 1
          /\ \E s \in {"active"} \cup (IF logs THEN {"inactive"} ELSE {}) :
                sess' = [sess EXCEPT ![w] = s]


\* ------------------------------------------- process_queued_runs

\* the runs table has a row of id r
RunExists(r) == r \in Runs /\ runs[r].status # "ABSENT"

Queued == {r \in Runs : runs[r].status = "QUEUED"}

Min(a, b) == IF a < b THEN a ELSE b

\* the results a SELECT ... WHERE status = 'QUEUED' LIMIT max may return:
\* min(max, |Queued|) distinct queued runs, in any order (no ORDER BY)
Selections(max) ==
    {q \in [1..Min(max, Cardinality(Queued)) -> Queued] :
        \A i, j \in DOMAIN q : i # j => q[i] # q[j]}

Range(q) == {q[i] : i \in DOMAIN q}

engineVars == <<provider, workflow, exits, env_models>>
genVars == <<gpc, event_callback, heartbeat_interval, heartbeat_stop, heartbeat_thread, now,
             hbDue, joinDue, emitted, outcome, slow>>
unitVars == <<applied, session, bw>>
apiVars == <<api, ctlLeft, dirLeft, tail, engineVars, genVars, unitVars, resp>>
batchVars == <<batch, selected, selmax, attempted>>
callVars == <<cur, sess, success, dirty, wfstep, results, artifacts, updated, result, notQueued,
              failed, secondary>>
histVars == <<claimed, lost, preempted, ctlAt, raisedAt>>

\* execute_run(id) is entered: db = SessionLocal()
StartCall(w, id) ==
    /\ cur' = [cur EXCEPT ![w] = id]
    /\ pc' = [pc EXCEPT ![w] = "claim"]
    /\ sess' = [sess EXCEPT ![w] = "active"]
    /\ success' = [success EXCEPT ![w] = FALSE]
    /\ dirty' = [dirty EXCEPT ![w] = FALSE]
    /\ wfstep' = [wfstep EXCEPT ![w] = 0]
    /\ results' = [results EXCEPT ![w] = <<>>]
    /\ artifacts' = [artifacts EXCEPT ![w] = <<>>]
    /\ updated' = [updated EXCEPT ![w] = 2]
    /\ result' = [result EXCEPT ![w] = "none"]
    /\ notQueued' = [notQueued EXCEPT ![w] = FALSE]
    /\ failed' = [failed EXCEPT ![w] = FALSE]
    /\ secondary' = [secondary EXCEPT ![w] = FALSE]

\* process_queued_runs(max): the selection; nothing to do when no run is queued
ProcessQueuedRuns(w) ==
    /\ pc[w] = "idle"
    /\ Queued # {}
    /\ \E max \in 1..MaxBatch : \E q \in Selections(max) :
          /\ batch' = [batch EXCEPT ![w] = q]
          /\ selected' = [selected EXCEPT ![w] = Range(q)]
          /\ selmax' = [selmax EXCEPT ![w] = max]
    /\ attempted' = [attempted EXCEPT ![w] = {}]
    /\ pc' = [pc EXCEPT ![w] = "loop"]
    /\ UNCHANGED <<runs, events, faultsLeft, directLeft, callVars, apiVars, histVars>>

\* the for loop of process_queued_runs: execute_run on the next selected run
NextInBatch(w) ==
    /\ pc[w] = "loop"
    /\ batch[w] # <<>>
    /\ StartCall(w, Head(batch[w]))
    /\ batch' = [batch EXCEPT ![w] = Tail(batch[w])]
    /\ attempted' = [attempted EXCEPT ![w] = @ \cup {Head(batch[w])}]
    /\ UNCHANGED <<runs, events, faultsLeft, directLeft, selected, selmax, apiVars,
                   histVars>>

BatchDoneOrAborted(w) ==
    /\ pc[w] = "loop"
    /\ batch[w] = <<>> \/ result[w] = "False"
    /\ pc' = [pc EXCEPT ![w] = "idle"]
    /\ UNCHANGED <<runs, events, faultsLeft, directLeft, callVars, batchVars, apiVars,
                   histVars>>

\* the for loop ends when every selected run was handed to execute_run
BatchDone(w) ==
    /\ pc[w] = "loop"
    /\ batch[w] = <<>>
    /\ pc' = [pc EXCEPT ![w] = "idle"]
    /\ UNCHANGED <<runs, events, faultsLeft, directLeft, callVars, batchVars, apiVars,
                   histVars>>

\* process_queued_runs raises before its try block (SessionLocal()): control is
\* in the except clause of _worker_loop
ProcessQueuedRunsRaises(w) ==
    /\ pc[w] = "idle"
    /\ faultsLeft > 0
    /\ faultsLeft' = faultsLeft - 1
    /\ pc' = [pc EXCEPT ![w] = "except"]
    /\ UNCHANGED <<runs, events, directLeft, callVars, batchVars, apiVars, histVars>>

LoopDiesAfterError == "off"

\* _worker_loop after its except clause has logged the error and slept: the
\* next iteration
LoopAfterError == "idle"

\* the except clause of _worker_loop: the error is logged, time.sleep
WorkerLoopExcept(w) ==
    /\ pc[w] = "except"
    /\ pc' = [pc EXCEPT ![w] = LoopAfterError]
    /\ UNCHANGED <<runs, events, faultsLeft, directLeft, callVars, batchVars, apiVars,
                   histVars>>

\* execute_run called on its own (as the tests do), on any id
ExecuteRunDirect(w, id) ==
    /\ pc[w] = "idle"
    /\ directLeft > 0
    /\ directLeft' = directLeft - 1
    /\ StartCall(w, id)
    /\ selected' = [selected EXCEPT ![w] = {}]
    /\ selmax' = [selmax EXCEPT ![w] = 0]
    /\ attempted' = [attempted EXCEPT ![w] = {}]
    /\ UNCHANGED <<runs, events, faultsLeft, batch, apiVars, histVars>>

\* ---------------------------------------------------- execute_run

ClaimMatchesAnyStatus(id) == id \in Runs

\* the rows the conditional update matches: id = run_id AND status = 'QUEUED'
ClaimMatches(id) == id \in Runs /\ runs[id].status = "QUEUED"

\* what the steps of an execute_run call leave alone
CallFrame == UNCHANGED <<cur, directLeft, batchVars, apiVars>>

\* execute_run returns v to its caller
Returns(w, v) ==
    /\ result' = [result EXCEPT ![w] = v]
    /\ pc' = [pc EXCEPT ![w] = "loop"]

\* a transaction of the claimed run's execution raises; control goes to `target`
Raised(w, target) ==
    /\ Raises(w, TRUE)
    /\ failed' = [failed EXCEPT ![w] = TRUE]
    /\ pc' = [pc EXCEPT ![w] = target]

\* Phase 1: the conditional update and its commit
Claim(w) ==
    /\ pc[w] = "claim"
    /\ LET id == cur[w] IN
       /\ notQueued' = [notQueued EXCEPT ![w] = ~ClaimMatches(id)]
       /\ \/ /\ ClaimMatches(id)
             /\ Commits(w, [runs EXCEPT ![id].status = "RUNNING",
                                        ![id].current_iteration = 0], events)
             /\ updated' = [updated EXCEPT ![w] = 1]
             /\ claimed' = [claimed EXCEPT ![id] = @ + 1]
             /\ pc' = [pc EXCEPT ![w] = "started"]
             /\ UNCHANGED <<result, lost>>
          \/ /\ ~ClaimMatches(id)
             /\ Commits(w, runs, events)
             /\ updated' = [updated EXCEPT ![w] = 0]
             /\ lost' = [r \in Runs |-> IF r = id THEN lost[r] + 1 ELSE lost[r]]
             /\ Returns(w, "False")
             /\ UNCHANGED claimed
          \/ /\ Raises(w, FALSE)
             /\ pc' = [pc EXCEPT ![w] = "handler"]
             /\ UNCHANGED <<updated, result, claimed, lost>>
    /\ UNCHANGED <<success, dirty, wfstep, results, artifacts, failed, secondary, preempted, ctlAt, raisedAt>>
    /\ CallFrame

\* re-fetch of the run, RUN_STARTED, commit, and the dispatch on run_type
Started(w) ==
    /\ pc[w] = "started"
    /\ \/ /\ Commits(w, runs, LogEvent(events, Event(cur[w], "RUN_STARTED")))
          /\ pc' = [pc EXCEPT ![w] =
                      IF runs[cur[w]].run_type = "workflow" THEN "wf_lookup" ELSE "think"]
          /\ UNCHANGED failed
       \/ Raised(w, "handler")
    /\ UNCHANGED <<success, dirty, wfstep, results, artifacts, updated, result, notQueued, secondary, histVars>>
    /\ CallFrame

\* one phase of _execute_simple_run: sleep, current_iteration = k, event t, commit;
\* any exception is caught by _execute_simple_run, which returns False
SimplePhase(w, here, k, t, next) ==
    /\ pc[w] = here
    /\ \/ /\ Commits(w, SetIteration(runs, cur[w], k), LogEvent(events, Event(cur[w], t)))
          /\ pc' = [pc EXCEPT ![w] = next]
          /\ UNCHANGED <<success, failed>>
       \/ /\ Raised(w, "finalize")
          /\ success' = [success EXCEPT ![w] = FALSE]
    /\ UNCHANGED <<dirty, wfstep, results, artifacts, updated, result, notQueued, secondary, histVars>>
    /\ CallFrame

Thinking(w) == SimplePhase(w, "think", 1, "AGENT_THINKING", "plan")

PlanningSkipsExecution(w) == SimplePhase(w, "plan", 2, "PLAN_GENERATED", "phase5")

Planning(w) == SimplePhase(w, "plan", 2, "PLAN_GENERATED", "exec")

Executing(w) == SimplePhase(w, "exec", 3, "EXECUTING", "phase5")

\* Phase 5: sleep, current_iteration = 4 on the object (no commit), return True;
\* a raising sleep is caught and False returned
Phase5(w) ==
    /\ pc[w] = "phase5"
    /\ \/ /\ dirty' = [dirty EXCEPT ![w] = TRUE]
          /\ success' = [success EXCEPT ![w] = TRUE]
          /\ UNCHANGED <<faultsLeft, failed>>
       \/ /\ faultsLeft > 0
          /\ faultsLeft' = faultsLeft - 1
          /\ failed' = [failed EXCEPT ![w] = TRUE]
          /\ success' = [success EXCEPT ![w] = FALSE]
          /\ UNCHANGED dirty
    /\ pc' = [pc EXCEPT ![w] = "finalize"]
    /\ UNCHANGED <<runs, events, sess, wfstep, results, artifacts, updated, result, notQueued, secondary,
                   histVars>>
    /\ CallFrame

FinalRunsUnlessControlled(w) ==
    IF runs[cur[w]].status \in {"PAUSED", "STOPPED"}
    THEN runs
    ELSE SetStatus(IF dirty[w] THEN SetIteration(runs, cur[w], 4) ELSE runs, cur[w],
                   IF success[w] THEN "COMPLETED" ELSE "FAILED")

\* the rows and the events the finalization transaction holds
FinalRuns(w) ==
    SetStatus(IF dirty[w] THEN SetIteration(runs, cur[w], 4) ELSE runs, cur[w],
              IF success[w] THEN "COMPLETED" ELSE "FAILED")

FinalEventsNone(w) == events

FinalEvents(w) ==
    LogEvent(events, Event(cur[w], IF success[w] THEN "RUN_COMPLETED" ELSE "RUN_FAILED"))

\* finalization: status, its event, one commit, return success
Finalize(w) ==
    /\ pc[w] = "finalize"
    /\ \/ /\ Commits(w, FinalRuns(w), FinalEvents(w))
          /\ Returns(w, IF success[w] THEN "True" ELSE "False")
          /\ UNCHANGED failed
       \/ /\ Raised(w, "handler")
          /\ UNCHANGED result
    /\ dirty' = [dirty EXCEPT ![w] = FALSE]
    /\ UNCHANGED <<success, wfstep, results, artifacts, updated, notQueued, secondary, histVars>>
    /\ CallFrame

HandlerRunsKept(w) == runs

\* the rows and the events the handler's transaction holds
HandlerRuns(w) == SetStatus(runs, cur[w], "FAILED")

HandlerEvents(w) == LogEvent(events, Event(cur[w], "RUN_FAILED"))

SecondaryFailureEscapes(w) == "raised"

\* how execute_run ends when the handler's own write raises: the inner except
\* rolls back and False is returned
SecondaryFailure(w) == "False"

RollbackRunsPartial(w) == IF cur[w] \in Runs THEN HandlerRuns(w) ELSE runs

\* db.rollback() in the inner except: the rows stay as last committed
RollbackRuns(w) == runs

\* except Exception: mark the run FAILED with RUN_FAILED in one commit; when that
\* raises too, roll back.  Returns False.
Handler(w) ==
    /\ pc[w] = "handler"
    /\ LET id == cur[w] IN
       \/ /\ RunExists(id)
          /\ Commits(w, HandlerRuns(w), HandlerEvents(w))
          /\ preempted' = [preempted EXCEPT ![id] = @ \/ runs[id].status = "QUEUED"]
          /\ Returns(w, "False")
          /\ UNCHANGED secondary
       \/ /\ ~RunExists(id)
          /\ Commits(w, runs, events)
          /\ Returns(w, "False")
          /\ UNCHANGED <<secondary, preempted>>
       \/ /\ \/ sess[w] = "inactive" /\ UNCHANGED faultsLeft
             \/ /\ sess[w] = "active"
                /\ faultsLeft > 0 /\ faultsLeft' = faultsLeft - 1
          /\ sess' = [sess EXCEPT ![w] = "active"]
          /\ secondary' = [secondary EXCEPT ![w] = TRUE]
          /\ Returns(w, SecondaryFailure(w))
          /\ runs' = RollbackRuns(w)
          /\ UNCHANGED <<events, preempted>>
    /\ UNCHANGED <<success, dirty, wfstep, results, artifacts, updated, notQueued, failed, claimed, lost, ctlAt,
                   raisedAt>>
    /\ CallFrame

\* -------------------------------------------- _execute_workflow_run

\* the keyword arguments _execute_llm_step passes to generate
GenerateCall == {"prompt", "model", "event_callback", "timeout"}

\* the keyword parameters generate takes: those of OllamaProvider.generate, or
\* anything for the Mock the tests put in its place
GenerateParams(p) ==
    IF p = "OllamaProvider"
    THEN {"prompt", "model", "event_callback"}
    ELSE GenerateCall

Providers == {"OllamaProvider", "Mock"}

\* whether the result of step i carries an artifact_path
HasArtifactPath(i) ==
    IF workflow[i].type = "llm_generate"
    THEN workflow[i].output_file
    ELSE workflow[i].save_artifact

WorkflowNameAsGiven(r) == runs[r].options.workflow_name

\* options.get("workflow_name"), quarkus-bootstrap-v1 when there is none
WorkflowName(r) ==
    IF runs[r].options.workflow_name = "" THEN "quarkus-bootstrap-v1"
    ELSE runs[r].options.workflow_name

\* WORKFLOW_REGISTRY
WorkflowRegistry == {"quarkus-bootstrap-v1"}

\* the message of the event of type t that worker w logs: those of STEP_STARTED
\* and STEP_COMPLETED begin with the number of the step, that of WORKFLOW_LOOKUP
\* ends with the workflow name
Message(w, t) ==
    IF t \in {"STEP_STARTED", "STEP_COMPLETED"} THEN ToString(wfstep[w])
    ELSE IF t = "WORKFLOW_LOOKUP" THEN WorkflowName(cur[w])
    ELSE "-"

\* events evs of the run in one commit, then on to `next`; when the transaction
\* raises nothing is committed and control goes to `onError`
LogAndCommit(w, here, evs, next, onError) ==
    /\ pc[w] = here
    /\ \/ /\ Commits(w, runs, events \o [i \in 1..Len(evs) |->
                                EventWith(cur[w], evs[i], Message(w, evs[i]))])
          /\ pc' = [pc EXCEPT ![w] = next]
          /\ UNCHANGED failed
       \/ Raised(w, onError)
    /\ UNCHANGED <<dirty, updated, result, notQueued, secondary, histVars>>
    /\ CallFrame

\* WORKFLOW_LOOKUP, then get_workflow and the project query: the workflow name
\* may be unregistered and the project row may be missing
WorkflowLookup(w) ==
    /\ pc[w] = "wf_lookup"
    /\ \E found \in IF WorkflowName(cur[w]) \in WorkflowRegistry
                     THEN {"wf_noproject", "wf_start"}
                     ELSE {"wf_notfound"} :
          LogAndCommit(w, "wf_lookup", <<"WORKFLOW_LOOKUP">>, found, "wf_error")
    /\ UNCHANGED <<success, wfstep, results, artifacts>>

WorkflowNotFound(w) ==
    /\ LogAndCommit(w, "wf_notfound", <<"WORKFLOW_NOT_FOUND">>, "finalize", "wf_error")
    /\ UNCHANGED <<success, wfstep, results, artifacts>>

ProjectNotFoundIgnored(w) ==
    /\ LogAndCommit(w, "wf_noproject", <<"PROJECT_NOT_FOUND">>, "wf_start", "wf_error")
    /\ UNCHANGED <<success, wfstep, results, artifacts>>

ProjectNotFound(w) ==
    /\ LogAndCommit(w, "wf_noproject", <<"PROJECT_NOT_FOUND">>, "finalize", "wf_error")
    /\ UNCHANGED <<success, wfstep, results, artifacts>>

WorkflowStart(w) ==
    /\ LogAndCommit(w, "wf_start", <<"WORKFLOW_START">>, "wf_started", "wf_error")
    /\ UNCHANGED <<success, wfstep, results, artifacts>>

\* WorkflowEngine(...) and execute_workflow's first callback, before its try
WorkflowStarted(w) ==
    /\ LogAndCommit(w, "wf_started", <<"WORKFLOW_STARTED">>, "step_started", "wf_error")
    /\ wfstep' = [wfstep EXCEPT ![w] = IF pc'[w] = "step_started" THEN 1 ELSE 0]
    /\ UNCHANGED <<results, artifacts>>
    /\ UNCHANGED success

\* STEP_STARTED, then _execute_step dispatches on the step type
StepStarted(w) ==
    /\ LogAndCommit(w, "step_started", <<"STEP_STARTED">>,
                    IF workflow[wfstep[w]].type = "llm_generate"
                    THEN "step_exec" ELSE "shell_executing",
                    "wf_failed")
    /\ UNCHANGED <<success, wfstep, results, artifacts>>

\* _execute_shell_step (also reached through _execute_maven_step) announces the
\* command before it runs it
ShellExecuting(w) ==
    /\ LogAndCommit(w, "shell_executing", <<"SHELL_EXECUTING">>, "step_exec", "wf_failed")
    /\ UNCHANGED <<success, wfstep, results, artifacts>>

\* the call of generate raises TypeError when it passes a keyword the provider's
\* generate does not take
StepTypeError(i) ==
    /\ workflow[i].type = "llm_generate"
    /\ ~(GenerateCall \subseteq GenerateParams(provider))

ArtifactRecordedWithPath(i) == HasArtifactPath(i)

\* execute_workflow appends the step to results["artifacts"]: it is marked
\* save_artifact and its result has an artifact_path
ArtifactRecorded(i) == workflow[i].save_artifact /\ HasArtifactPath(i)

\* what the step executor of step i can meet: the outcome of subprocess.run for a
\* shell or maven step
Outcomes(i) == IF workflow[i].type = "llm_generate" THEN {"returned"} ELSE exits

CommandRaisesOnFailure(rc) == rc # "zero" /\ rc # "returned"

\* _execute_shell_step raises for TimeoutExpired only
CommandRaises(rc) == rc = "timeout"

\* the entry execute_workflow appends to results["steps"]; success is
\* returncode == 0 for a command, and absent from the result of an llm step
StepResult(rc) ==
    [status |-> "completed",
     success |-> CASE rc = "zero" -> "True" [] rc = "returned" -> "absent" [] OTHER -> "False"]

\* _execute_step: the step executor returns a result or raises
StepExecuted(w) ==
    /\ pc[w] = "step_exec"
    /\ \/ /\ ~StepTypeError(wfstep[w])
          /\ \E rc \in Outcomes(wfstep[w]) :
                /\ ~CommandRaises(rc)
                /\ results' = [results EXCEPT ![w] = Append(@, StepResult(rc))]
          /\ artifacts' = [artifacts EXCEPT ![w] =
                             IF ArtifactRecorded(wfstep[w])
                             THEN Append(@, workflow[wfstep[w]].name) ELSE @]
          /\ pc' = [pc EXCEPT ![w] = "step_completed"]
          /\ UNCHANGED <<faultsLeft, failed, raisedAt>>
       \/ /\ \/ StepTypeError(wfstep[w])
             \/ \E rc \in Outcomes(wfstep[w]) : CommandRaises(rc)
          /\ failed' = [failed EXCEPT ![w] = TRUE]
          /\ raisedAt' = [raisedAt EXCEPT ![cur[w]] = wfstep[w]]
          /\ pc' = [pc EXCEPT ![w] = "wf_failed"]
          /\ UNCHANGED <<faultsLeft, results, artifacts>>
       \/ /\ ~StepTypeError(wfstep[w])
          /\ faultsLeft > 0
          /\ faultsLeft' = faultsLeft - 1
          /\ failed' = [failed EXCEPT ![w] = TRUE]
          /\ raisedAt' = [raisedAt EXCEPT ![cur[w]] = wfstep[w]]
          /\ pc' = [pc EXCEPT ![w] = "wf_failed"]
          /\ UNCHANGED <<results, artifacts>>
    /\ UNCHANGED <<runs, events, sess, success, dirty, wfstep, updated, result,
                   notQueued, secondary, claimed, lost, preempted, ctlAt>>
    /\ CallFrame

NextStepSkipping(i) == i + 2

\* enumerate(workflow.steps, 1): the step after step i
NextStep(i) == i + 1

\* STEP_COMPLETED (and ARTIFACT_CREATED when the result has an artifact path);
\* then the next step, or WORKFLOW_COMPLETED after the last one
StepCompleted(w) ==
    /\ pc[w] = "step_completed"
    /\ LogAndCommit(w, "step_completed",
                    IF HasArtifactPath(wfstep[w])
                    THEN <<"STEP_COMPLETED", "ARTIFACT_CREATED">>
                    ELSE <<"STEP_COMPLETED">>,
                    IF wfstep[w] < Len(workflow) THEN "step_started" ELSE "wf_completed",
                    "wf_failed")
    /\ wfstep' = [wfstep EXCEPT ![w] = IF pc'[w] = "step_started" THEN NextStep(@) ELSE @]
    /\ UNCHANGED <<results, artifacts>>
    /\ UNCHANGED success

WorkflowCompleted(w) ==
    /\ LogAndCommit(w, "wf_completed", <<"WORKFLOW_COMPLETED">>, "wf_summary", "wf_failed")
    /\ UNCHANGED <<success, wfstep, results, artifacts>>

WorkflowFailedSwallowed(w) ==
    /\ LogAndCommit(w, "wf_failed", <<"WORKFLOW_FAILED">>, "wf_summary", "wf_error")
    /\ UNCHANGED <<success, wfstep, results, artifacts>>

\* execute_workflow's except: WORKFLOW_FAILED, then the failure is re-raised
WorkflowFailed(w) ==
    /\ LogAndCommit(w, "wf_failed", <<"WORKFLOW_FAILED">>, "wf_error", "wf_error")
    /\ UNCHANGED <<success, wfstep, results, artifacts>>

WorkflowSummary(w) ==
    /\ LogAndCommit(w, "wf_summary", <<"WORKFLOW_SUMMARY">>, "finalize", "wf_error")
    /\ success' = [success EXCEPT ![w] = pc'[w] = "finalize"]
    /\ UNCHANGED <<wfstep, results, artifacts>>

\* _execute_workflow_run's except: WORKFLOW_ERROR, commit, return False; a failure
\* of that commit escapes to execute_run's handler
WorkflowError(w) ==
    /\ LogAndCommit(w, "wf_error", <<"WORKFLOW_ERROR">>, "finalize", "handler")
    /\ success' = [success EXCEPT ![w] = FALSE]
    /\ UNCHANGED <<wfstep, results, artifacts>>

\* ----------------------------------------------- apply_model_overrides

\* a workflow whose step names meet the lookup by lower-cased name: an llm step
\* "Planner", an llm step without a role in the environment, a command named
\* like a key
NamedWorkflow ==
    << [name |-> "Planner", type |-> "llm_generate", model |-> "base:1",
        output_file |-> TRUE, save_artifact |-> FALSE],
       [name |-> "reviewer", type |-> "llm_generate", model |-> "base:2",
        output_file |-> TRUE, save_artifact |-> FALSE],
       [name |-> "coder", type |-> "shell_command", model |-> Absent,
        output_file |-> FALSE, save_artifact |-> FALSE] >>

\* step.name.lower(), on the names of the model
Lower(n) == IF n = "Planner" THEN "planner" ELSE n

\* `k in d and d[k]`: the key is there and its value is not empty
Given(d, k) == k \in DOMAIN d /\ d[k] \notin {Absent, ""}

NewModelEnvFirst(step, model_overrides, env) ==
    LET step_name == Lower(step.name)
    IN  IF Given(env, step_name) THEN env[step_name]
        ELSE IF Given(model_overrides, step_name) THEN model_overrides[step_name]
        ELSE step.model

\* new_model of an llm step: the run's override, else the environment's model,
\* else the step's own
NewModel(step, model_overrides, env) ==
    LET step_name == Lower(step.name)
    IN  IF Given(model_overrides, step_name) THEN model_overrides[step_name]
        ELSE IF Given(env, step_name) THEN env[step_name]
        ELSE step.model

\* apply_model_overrides(workflow, model_overrides) in environment env: the
\* steps of the workflow it returns (the descriptions, which it rewrites too,
\* are not part of the model's steps)
ApplyModelOverrides(wf, model_overrides, env) ==
    [i \in 1..Len(wf) |->
        IF wf[i].type # "llm_generate" THEN wf[i]
        ELSE [wf[i] EXCEPT !.model = NewModel(wf[i], model_overrides, env)]]

\* apply_model_overrides is called with the registered workflow and the
\* "models" of run r's options
ApplyModelOverridesCall(r) ==
    /\ ~applied.called
    /\ RunExists(r) /\ runs[r].run_type = "workflow"
    /\ applied' = [called |-> TRUE, workflow |-> workflow,
                   model_overrides |-> runs[r].options.models,
                   steps |-> ApplyModelOverrides(workflow, runs[r].options.models,
                                                 env_models)]
    /\ UNCHANGED <<runs, events, histVars, pc, faultsLeft, directLeft, callVars, batchVars,
                   engineVars, genVars, api, ctlLeft, dirLeft, tail, session, bw, resp>>

\* the workflow worker w's execute_run hands to engine.execute_workflow: the
\* one get_workflow returned
EngineWorkflow(w) == workflow

\* ------------------------------------------------- _log_event and its caller
\* A caller's session, statement by statement: _log_event, db.commit() and
\* db.rollback().  `events` is the committed table, which is all that another
\* session reads.

\* where a _log_event call can fail: not at all, in Event(...) or db.add, in
\* db.flush
LogOutcomes == {"ok", "add", "flush"}

AfterAddCommitted(committed, e) == Append(committed, e)

\* the committed events table after db.add(event) and db.flush(): as before
AfterAdd(committed, e) == committed

\* what the calls on the session leave alone
SessionFrame ==
    UNCHANGED <<runs, histVars, pc, faultsLeft, directLeft, callVars, batchVars, engineVars,
                genVars, api, ctlLeft, dirLeft, tail, applied, bw, resp>>

\* _log_event(db, r, "TEST", payload): the row is added and flushed; an exception
\* is logged and swallowed.  A failing flush rolls the database transaction back
\* and leaves the session inactive; on an inactive session the flush raises.
LogEventCall(r, o) ==
    /\ session.ops < MaxOps
    /\ LET e == EventWith(r, "TEST", ToString(session.ops))
           how == IF session.state = "inactive" THEN "flush" ELSE o
       IN  /\ events' = IF how = "ok" THEN AfterAdd(events, e) ELSE events
           /\ session' =
                 [session EXCEPT
                    !.ops = @ + 1,
                    !.raised = FALSE,
                    !.last = IF how = "ok" THEN "appended" ELSE "swallowed_" \o how,
                    !.state = IF how = "flush" THEN "inactive" ELSE @,
                    !.pending = CASE how = "ok" -> Append(@, e)
                                  [] how = "add" -> @
                                  [] OTHER -> <<>>,
                    !.dropped = IF how = "flush" THEN @ \cup Range(session.pending) ELSE @]
    /\ SessionFrame

\* db.commit() by the caller: the pending events become visible; on an inactive
\* session it raises
SessionCommit ==
    /\ session.ops < MaxOps
    /\ IF session.state = "active"
       THEN /\ events' = events \o session.pending
            /\ session' = [session EXCEPT !.ops = @ + 1, !.raised = FALSE,
                                          !.last = "committed", !.pending = <<>>]
       ELSE /\ events' = events
            /\ session' = [session EXCEPT !.ops = @ + 1, !.raised = TRUE,
                                          !.last = "commit_raised"]
    /\ SessionFrame

\* db.rollback() by the caller: the transaction's events are discarded and the
\* session is usable again
SessionRollback ==
    /\ session.ops < MaxOps
    /\ events' = events
    /\ session' = [session EXCEPT !.ops = @ + 1, !.raised = FALSE, !.last = "rolled_back",
                                  !.state = "active", !.pending = <<>>,
                                  !.dropped = @ \cup Range(session.pending)]
    /\ SessionFrame

\* ------------------------------------------------------ BackgroundWorker
\* start() and stop() are called one after the other by one thread.  Time is
\* counted in seconds; it passes in process_queued_runs, in time.sleep and in
\* thread.join, and a statement takes none.

\* seconds a process_queued_runs call may take: no queued run, one simple run
\* (3.5 s), four simple runs
Durations == {0, 4, 14}

WorkerFrame ==
    UNCHANGED <<runs, events, histVars, pc, faultsLeft, directLeft, callVars, batchVars,
                engineVars, genVars, api, ctlLeft, dirLeft, tail, applied, session, resp>>

\* the worker-loop threads that were started and have not ended
Alive == {t \in LoopThreads : bw.loops[t].at \notin {"none", "exited"}}

\* start(): nothing when self.running; else running = True and a new thread
WorkerStart ==
    /\ bw.call = "idle" /\ bw.calls < MaxCalls
    /\ IF bw.running
       THEN bw' = [bw EXCEPT !.calls = @ + 1]
       ELSE \E t \in LoopThreads :
               /\ bw.loops[t].at = "none"
               /\ \A u \in LoopThreads : u < t => bw.loops[u].at # "none"
               /\ bw' = [bw EXCEPT !.calls = @ + 1, !.running = TRUE, !.thread = t,
                                   !.loops[t] = [at |-> "while", left |-> 0]]
    /\ WorkerFrame

\* stop(): running = False, then self.thread.join(timeout=10) when there is a thread
WorkerStop ==
    /\ bw.call = "idle" /\ bw.calls < MaxCalls
    /\ bw' = [bw EXCEPT !.calls = @ + 1, !.running = FALSE,
                        !.call = IF bw.thread # 0 THEN "join" ELSE "idle",
                        !.wait = IF bw.thread # 0 THEN StopTimeout ELSE 0]
    /\ WorkerFrame

\* join returns: the thread has ended, or the timeout has passed
JoinDone ==
    /\ bw.call = "join"
    /\ bw.loops[bw.thread].at = "exited" \/ bw.wait = 0
    /\ bw' = [bw EXCEPT !.call = "idle", !.wait = 0]
    /\ WorkerFrame

\* `while self.running:` is evaluated by the loop of thread t
LoopWhile(t) ==
    /\ bw.loops[t].at = "while"
    /\ IF bw.running
       THEN \E d \in Durations :
               bw' = [bw EXCEPT !.loops[t] = [at |-> "process_queued_runs", left |-> d]]
       ELSE bw' = [bw EXCEPT !.loops[t] = [at |-> "exited", left |-> 0]]
    /\ WorkerFrame

\* process_queued_runs has returned or raised: time.sleep(check_interval)
LoopSleep(t) ==
    /\ bw.loops[t].at = "process_queued_runs" /\ bw.loops[t].left = 0
    /\ bw' = [bw EXCEPT !.loops[t] = [at |-> "sleep", left |-> CheckInterval]]
    /\ WorkerFrame

\* the sleep is over: back to the loop condition
LoopWake(t) ==
    /\ bw.loops[t].at = "sleep" /\ bw.loops[t].left = 0
    /\ bw' = [bw EXCEPT !.loops[t] = [at |-> "while", left |-> 0]]
    /\ WorkerFrame

\* the seconds the waits in progress still take
Waits ==
    {bw.loops[t].left : t \in {u \in Alive : bw.loops[u].at # "while"}}
        \cup (IF bw.call = "join" THEN {bw.wait} ELSE {})

\* Time passes, up to the end of the shortest wait, when no statement is due.
Elapse ==
    /\ \A t \in Alive : bw.loops[t].at # "while"
    /\ bw.call = "join" => bw.loops[bw.thread].at # "exited"
    /\ Waits # {} /\ 0 \notin Waits
    /\ LET d == CHOOSE x \in Waits : \A y \in Waits : x <= y
       IN  bw' = [bw EXCEPT
                    !.wait = IF bw.call = "join" THEN @ - d ELSE @,
                    !.loops = [t \in LoopThreads |->
                                 IF t \in Alive
                                 THEN [bw.loops[t] EXCEPT !.left = @ - d]
                                 ELSE bw.loops[t]]]
    /\ WorkerFrame

\* --------------------------------------------------- generate (providers)
\* One call of generate and its heartbeat thread.  Time is counted in seconds
\* since start_time.  A statement takes no time; time passes while
\* requests.post waits for the response, while heartbeat_stop.wait and
\* heartbeat_thread.join wait, and while a HEARTBEAT callback is running.

\* the values of OLLAMA_HEARTBEAT_INTERVAL
Intervals == {0, 1, 2}

\* requests.post and the checks of the response: "ok", or the exception raised
PostOutcomes == {"ok", "Timeout", "RequestException", "ValueError"}

\* everything but the state of generate
restVars == <<runs, events, histVars, pc, faultsLeft, directLeft, callVars, batchVars,
              engineVars, api, ctlLeft, dirLeft, tail, unitVars, resp>>

Notify(t) ==
    IF event_callback THEN Append(emitted, [type |-> t, elapsed |-> now]) ELSE emitted

WaitUntilTwice(iv) == now + 2 * iv

\* heartbeat_stop.wait(self._heartbeat_interval) times out iv seconds after it
\* was entered
WaitUntil(iv) == now + iv

\* generate is called: LOADING_MODEL, start_time, GENERATING, the heartbeat
\* thread is started when there is a callback and the interval is positive,
\* and requests.post is entered
GenerateCalled(cb, iv) ==
    /\ gpc = "idle"
    /\ event_callback' = cb
    /\ heartbeat_interval' = iv
    /\ emitted' = IF cb THEN << [type |-> "LOADING_MODEL", elapsed |-> 0],
                                [type |-> "GENERATING", elapsed |-> 0] >>
                   ELSE <<>>
    /\ heartbeat_thread' = IF cb /\ iv > 0 THEN "waiting" ELSE "none"
    /\ hbDue' = WaitUntil(iv)
    /\ gpc' = "post"
    /\ UNCHANGED <<heartbeat_stop, now, joinDue, outcome, slow, restVars>>

\* requests.post returns or raises (Timeout after self._timeout seconds), the
\* response is checked, and the terminal event is emitted: DONE before the
\* return, ERROR in the except clause
PostReturned(o) ==
    /\ gpc = "post"
    /\ o = "Timeout" => now = MaxWait
    /\ outcome' = o
    /\ emitted' = Notify(IF o = "ok" THEN "DONE" ELSE "ERROR")
    /\ gpc' = "finally"
    /\ UNCHANGED <<event_callback, heartbeat_interval, heartbeat_stop, heartbeat_thread, now,
                   hbDue, joinDue, slow, restVars>>

\* generate returns the text or re-raises
Exit(o) == IF o = "ok" THEN "returned" ELSE "raised"

JoinUntilNow == now

\* heartbeat_thread.join(timeout=1) gives up a second after it was entered
JoinUntil == now + JoinTimeout

\* finally: heartbeat_stop.set() and the join is entered, when a thread was started
Finally ==
    /\ gpc = "finally"
    /\ IF heartbeat_thread # "none"
       THEN /\ heartbeat_stop' = TRUE
            /\ joinDue' = JoinUntil
            /\ gpc' = "join"
       ELSE /\ gpc' = Exit(outcome)
            /\ UNCHANGED <<heartbeat_stop, joinDue>>
    /\ UNCHANGED <<event_callback, heartbeat_interval, heartbeat_thread, now, hbDue, emitted,
                   outcome, slow, restVars>>

\* heartbeat_thread.join(timeout=1) returns: the thread ended, or a second passed
JoinReturned ==
    /\ gpc = "join"
    /\ heartbeat_thread = "ended" \/ now >= joinDue
    /\ gpc' = Exit(outcome)
    /\ UNCHANGED <<event_callback, heartbeat_interval, heartbeat_stop, heartbeat_thread, now,
                   hbDue, joinDue, emitted, outcome, slow, restVars>>

\* heartbeat_worker: wait returns True (the thread ends), or it times out and
\* the callback is called with HEARTBEAT and the elapsed seconds, or the
\* callback returns and the next wait is entered
HeartbeatWorker ==
    /\ \/ /\ heartbeat_thread = "waiting" /\ heartbeat_stop
          /\ heartbeat_thread' = "ended"
          /\ UNCHANGED <<emitted, hbDue>>
       \/ /\ heartbeat_thread = "waiting" /\ ~heartbeat_stop /\ now >= hbDue
          /\ emitted' = Notify("HEARTBEAT")
          /\ heartbeat_thread' = "calling"
          /\ UNCHANGED hbDue
       \/ /\ heartbeat_thread = "calling"
          /\ heartbeat_thread' = "waiting"
          /\ hbDue' = WaitUntil(heartbeat_interval)
          /\ UNCHANGED emitted
    /\ UNCHANGED <<gpc, event_callback, heartbeat_interval, heartbeat_stop, now, joinDue,
                   outcome, slow, restVars>>

\* a second passes: every thread is in a wait that has not ended, or in a
\* HEARTBEAT callback, and the call or its thread is still there
Tick ==
    /\ now < MaxWait + JoinTimeout + 1
    /\ \/ gpc = "post" /\ now < MaxWait
       \/ gpc = "join" /\ heartbeat_thread # "ended" /\ now < joinDue
       \/ gpc \in {"returned", "raised"} /\ heartbeat_thread \notin {"none", "ended"}
    /\ \/ heartbeat_thread \in {"none", "ended", "calling"}
       \/ heartbeat_thread = "waiting" /\ ~heartbeat_stop /\ now < hbDue
    /\ now' = now + 1
    /\ slow' = (slow \/ heartbeat_thread = "calling")
    /\ UNCHANGED <<gpc, event_callback, heartbeat_interval, heartbeat_stop, heartbeat_thread,
                   hbDue, joinDue, emitted, outcome, restVars>>

\* ------------------------------------------------------- API routes

Actions == {"pause", "resume", "stop"}

StatusMapPauseQueued(a) ==
    CASE a = "pause" -> "QUEUED"
      [] a = "resume" -> "RUNNING"
      [] a = "stop" -> "STOPPED"

\* status_map of control_run
StatusMap(a) ==
    CASE a = "pause" -> "PAUSED"
      [] a = "resume" -> "RUNNING"
      [] a = "stop" -> "STOPPED"

ActionEventStop(a) == "RUN_STOP"

\* f"RUN_{action.upper()}"
ActionEvent(a) ==
    CASE a = "pause" -> "RUN_PAUSE"
      [] a = "resume" -> "RUN_RESUME"
      [] a = "stop" -> "RUN_STOP"

workerVars == <<pc, faultsLeft, directLeft, callVars, batchVars, engineVars, genVars,
               unitVars>>

\* a worker has claimed run r and its execute_run call has not ended
InExecution(r) == \E w \in Workers : cur[w] = r /\ updated[w] = 1 /\ pc[w] \notin {"idle", "loop"}

\* where run r is when a control action is committed for it
Situation(r) ==
    IF runs[r].status = "QUEUED" THEN {"queued"}
    ELSE IF InExecution(r) THEN {"executing"}
    ELSE {}

\* the action names a request may carry in its path
ActionNames == Actions \cup {"PAUSE", "cancel"}

\* action.lower(), on the names of the model
ActionLower(a) == IF a = "PAUSE" THEN "pause" ELSE a

\* the HTTPException control_run raises: 400 for an action that is not valid
\* after lower(), 404 for a run that has no row; 0 when it raises none
Refusal(r, a) ==
    IF ActionLower(a) \notin Actions THEN 400
    ELSE IF ~RunExists(r) THEN 404
    ELSE 0

\* control_run raises before it writes
ControlRunRefused(r, a) ==
    /\ api = NoReq
    /\ ctlLeft > 0
    /\ ctlLeft' = ctlLeft - 1
    /\ Refusal(r, a) # 0
    /\ resp' = [NoResp EXCEPT !.op = "control", !.run = r, !.text = a,
                              !.code = Refusal(r, a), !.at = Len(events)]
    /\ UNCHANGED <<runs, events, api, dirLeft, tail, histVars, workerVars>>

\* control_run, first commit: the status
ControlRun(r, a) ==
    /\ api = NoReq
    /\ ctlLeft > 0
    /\ ctlLeft' = ctlLeft - 1
    /\ Refusal(r, a) = 0
    /\ runs' = SetStatus(runs, r, StatusMap(ActionLower(a)))
    /\ api' = [run |-> r, name |-> a, action |-> ActionLower(a)]
    /\ preempted' = [preempted EXCEPT ![r] = @ \/ runs[r].status = "QUEUED"]
    /\ ctlAt' = [ctlAt EXCEPT ![r] = IF ActionLower(a) \in {"pause", "stop"}
                                      THEN @ \cup Situation(r) ELSE @]
    /\ UNCHANGED <<events, dirLeft, tail, resp, claimed, lost, raisedAt, workerVars>>

\* control_run, second commit: the event
ControlRunEvent ==
    /\ api # NoReq
    /\ api.action \in Actions
    /\ events' = Append(events, Event(api.run, ActionEvent(api.action)))
    /\ api' = NoReq
    /\ UNCHANGED <<runs, ctlLeft, dirLeft, tail, resp, histVars, workerVars>>

\* _providers: the registered providers
Registered == {"ollama", "gemini"}

\* default_model of the provider classes
DefaultModel(p) == IF p = "ollama" THEN "gemma3:27b" ELSE "gemini-1.5-flash"

ValidateWithoutHealth(p, m, healthy) ==
    LET resolved == IF p = "" THEN "ollama" ELSE p
    IN  IF resolved \notin Registered
        THEN [ok |-> FALSE, provider |-> resolved, model |-> ""]
        ELSE [ok |-> TRUE, provider |-> resolved,
              model |-> IF m = "" THEN DefaultModel(resolved) ELSE m]

\* validate_provider_model(p, m), "" for None, where check_health answers True for
\* the providers in `healthy`: ok is FALSE where it raises ValueError.  The
\* environment names no default provider or model, so the fallbacks apply.
ValidateProviderModel(p, m, healthy) ==
    LET resolved == IF p = "" THEN "ollama" ELSE p
    IN  IF resolved \notin Registered \/ resolved \notin healthy
        THEN [ok |-> FALSE, provider |-> resolved, model |-> ""]
        ELSE [ok |-> TRUE, provider |-> resolved,
              model |-> IF m = "" THEN DefaultModel(resolved) ELSE m]

\* the id the next row of the runs table gets: rows are never deleted
NextRunId == Cardinality({r \in Runs : RunExists(r)}) + 1

\* the create-run requests, of the default run type: whether the project exists,
\* the provider and model options ("" when absent), and the providers that are
\* healthy when the request is served
CreateRequests ==
    [project : BOOLEAN, provider : Registered \cup {"", "nope"}, model : {"", "m"},
     run_type : {"agent"}, healthy : SUBSET Registered]

\* create_run up to its first commit: 404 without the project, 400 when
\* validate_provider_model raises, else the run row with the resolved options
CreateRun(q) ==
    /\ api = NoReq
    /\ NextRunId \in Runs
    /\ LET v == ValidateProviderModel(q.provider, q.model, q.healthy)
           answer == [NoResp EXCEPT !.op = "create", !.create = q, !.at = Len(events)]
       IN  IF ~q.project
           THEN /\ resp' = [answer EXCEPT !.code = 404]
                /\ UNCHANGED <<runs, api>>
           ELSE IF ~v.ok
           THEN /\ resp' = [answer EXCEPT !.code = 400]
                /\ UNCHANGED <<runs, api>>
           ELSE /\ runs' = [runs EXCEPT ![NextRunId] =
                              [status |-> "QUEUED", current_iteration |-> 0,
                               run_type |-> q.run_type,
                               options |-> [provider |-> v.provider, model |-> v.model,
                                            workflow_name |-> "", models |-> NoModels]]]
                /\ api' = [run |-> NextRunId, name |-> "create", action |-> "create"]
                /\ resp' = [answer EXCEPT !.run = NextRunId]
    /\ UNCHANGED <<events, ctlLeft, dirLeft, tail, histVars, workerVars>>

\* create_run, second commit: the RUN_CREATED event; then the run is returned
CreateRunEvent ==
    /\ api # NoReq
    /\ api.action = "create"
    /\ events' = Append(events, Event(api.run, "RUN_CREATED"))
    /\ api' = NoReq
    /\ resp' = [resp EXCEPT !.code = 200]
    /\ UNCHANGED <<runs, ctlLeft, dirLeft, tail, histVars, workerVars>>

\* the texts a directive may carry
Texts == {"a", "b"}

DirectiveEventNoText(r, text) == Event(r, "DIRECTIVE")

\* Event(run_id=run_id, type="DIRECTIVE", payload=body.text)
DirectiveEvent(r, text) == EventWith(r, "DIRECTIVE", text)

\* create_directive: 404 when the run does not exist, else one DIRECTIVE event
\* with the submitted text, returned with its new id
CreateDirective(r, text) ==
    /\ dirLeft > 0
    /\ dirLeft' = dirLeft - 1
    /\ IF RunExists(r)
       THEN /\ events' = Append(events, DirectiveEvent(r, text))
            /\ resp' = [NoResp EXCEPT !.op = "directive", !.run = r, !.text = text,
                                      !.code = 200, !.at = Len(events'),
                                      !.body = <<[id |-> Len(events'),
                                                  run_id |-> events'[Len(events')].run_id,
                                                  type |-> events'[Len(events')].type,
                                                  payload |-> events'[Len(events')].payload]>>]
       ELSE /\ UNCHANGED events
            /\ resp' = [NoResp EXCEPT !.op = "directive", !.run = r, !.text = text,
                                      !.code = 404, !.at = Len(events)]
    /\ UNCHANGED <<runs, api, ctlLeft, tail, histVars, workerVars>>

\* the row of event id i as to_dict returns it
Row(i) == [id |-> i, run_id |-> events[i].run_id, type |-> events[i].type,
           payload |-> events[i].payload]

\* ------------------------------------------- stream_run_events (tail)

\* ids of the events of run r with lo < id <= hi, ascending
RECURSIVE IdsBetween(_, _, _)
IdsBetween(r, lo, hi) ==
    IF hi <= lo THEN <<>>
    ELSE IF events[hi].run_id = r
         THEN Append(IdsBetween(r, lo, hi - 1), hi)
         ELSE IdsBetween(r, lo, hi - 1)

NewEventsFromCursor(r, cursor) ==
    IdsBetween(r, IF cursor = 0 THEN 0 ELSE cursor - 1, Len(events))

\* the poll's query: run_id = r AND id > cursor ORDER BY id ASC
NewEvents(r, cursor) == IdsBetween(r, cursor, Len(events))

ListedIdsFrom(r, given, after) ==
    IdsBetween(r, IF given /\ after > 1 THEN after - 1 ELSE 0, Len(events))

\* the query of get_run_events: run_id = r, and id > after_id only when after_id
\* is given and positive, ORDER BY id ASC
ListedIds(r, given, after) ==
    IdsBetween(r, IF given /\ after > 0 THEN after ELSE 0, Len(events))

\* get_run_events(run_id, after_id): the rows of the query
GetRunEvents(r, given, after) ==
    /\ LET ids == ListedIds(r, given, after) IN
          resp' = [NoResp EXCEPT !.op = "events", !.run = r, !.given = given,
                                 !.after = IF given THEN after ELSE 0,
                                 !.at = Len(events), !.code = 200,
                                 !.body = [i \in 1..Len(ids) |-> Row(ids[i])]]
    /\ UNCHANGED <<runs, events, api, ctlLeft, dirLeft, tail, histVars, workerVars>>

\* the last id the consumer saw, which it reconnects with
LastSeen == IF tail.received = <<>> THEN tail.start ELSE tail.received[Len(tail.received)]

\* the consumer connects with after_id / Last-Event-ID: any cursor the first
\* time, the last id it saw when it reconnects
TailConnect(r, after) ==
    /\ ~tail.conn
    /\ IF tail.run = 0
       THEN tail' = [tail EXCEPT !.conn = TRUE, !.run = r, !.start = after, !.cursor = after]
       ELSE /\ r = tail.run
            /\ after = LastSeen
            /\ tail' = [tail EXCEPT !.conn = TRUE, !.cursor = after, !.resumed = TRUE,
                                    !.keepalive_counter = 0, !.delivered = FALSE,
                                    !.keepalive = "none"]
    /\ UNCHANGED <<runs, events, api, ctlLeft, dirLeft, resp, histVars, workerVars>>

StreamOpenUntilTerminal(r) == runs[r].status \notin {"COMPLETED", "FAILED", "STOPPED"}

\* while True: nothing but request.is_disconnected() leaves the loop
StreamOpen(r) == TRUE

\* one iteration of event_generator: the new events are yielded in order and
\* the cursor follows; the consumer may go away after any of them.  An
\* iteration that yielded them all counts, and yields the keepalive comment
\* when the counter reaches keepalive_interval.
TailPoll(k) ==
    /\ tail.conn
    /\ LET new == NewEvents(tail.run, tail.cursor)
           full == k = Len(new)
           due == tail.keepalive_counter + 1 >= KeepaliveInterval
           any == tail.delivered \/ k > 0
       IN
       /\ k <= Len(new)
       /\ tail' = [tail EXCEPT !.received = @ \o SubSeq(new, 1, k),
                               !.cursor = IF k = 0 THEN @ ELSE new[k],
                               !.conn = full /\ StreamOpen(tail.run),
                               !.keepalive_counter =
                                   IF ~full THEN @ ELSE IF due THEN 0 ELSE @ + 1,
                               !.delivered = IF ~full THEN any ELSE IF due THEN FALSE ELSE any,
                               !.keepalive = IF full /\ due
                                             THEN (IF any THEN "busy" ELSE "idle")
                                             ELSE "none"]
    /\ UNCHANGED <<runs, events, api, ctlLeft, dirLeft, resp, histVars, workerVars>>

\* request.is_disconnected(): the loop ends
TailDisconnect ==
    /\ tail.conn
    /\ tail' = [tail EXCEPT !.conn = FALSE]
    /\ UNCHANGED <<runs, events, api, ctlLeft, dirLeft, resp, histVars, workerVars>>

\* ------------------------------------------------------ specifications

\* run 1 is a default (agent) run, run 2 a workflow run
MixedTypes == [r \in Runs |-> IF r = 1 THEN "agent" ELSE "workflow"]

AgentTypes == [r \in Runs |-> "agent"]

\* no run is created yet
NoTypes == [r \in Runs |-> "none"]

CreateStep ==
    \/ \E q \in CreateRequests : CreateRun(q)
    \/ CreateRunEvent

BatchStep(w) ==
    \/ ProcessQueuedRuns(w)
    \/ NextInBatch(w)
    \/ BatchDone(w)

SimpleRunStep(w) ==
    \/ Claim(w)
    \/ Started(w)
    \/ Thinking(w)
    \/ Planning(w)
    \/ Executing(w)
    \/ Phase5(w)
    \/ Finalize(w)

WorkflowRunStep(w) ==
    \/ WorkflowLookup(w)
    \/ WorkflowNotFound(w)
    \/ ProjectNotFound(w)
    \/ WorkflowStart(w)
    \/ WorkflowStarted(w)
    \/ StepStarted(w)
    \/ ShellExecuting(w)
    \/ StepExecuted(w)
    \/ StepCompleted(w)
    \/ WorkflowCompleted(w)
    \/ WorkflowSummary(w)

FailureStep(w) ==
    \/ WorkflowFailed(w)
    \/ WorkflowError(w)
    \/ Handler(w)

ControlStep ==
    \/ \E r \in Runs : \E a \in Actions : ControlRun(r, a)
    \/ ControlRunEvent

DirectiveStep == \E r \in Runs \cup {NoRun} : \E text \in Texts : CreateDirective(r, text)

\* directives on existing runs, all with the same text
PlainDirectiveStep == \E r \in Runs : CreateDirective(r, "a")

ListStep ==
    \E r \in Runs \cup {NoRun} :
        \/ GetRunEvents(r, FALSE, 0)
        \/ \E after \in (-1)..MaxAfter : GetRunEvents(r, TRUE, after)

TailStep ==
    \/ \E r \in Runs : \E after \in 0..MaxAfter : TailConnect(r, after)
    \/ \E k \in 0..Len(events) : TailPoll(k)
    \/ TailDisconnect

\* Spec: one worker thread and direct execute_run calls, runs of both types,
\* with injected failures.
Init == InitState(MixedTypes, {1}, Providers, MaxFaults, 0, 0, MaxDirect)

Next ==
    \E w \in Workers :
        \/ BatchStep(w)
        \/ \E id \in Runs \cup {NoRun} : ExecuteRunDirect(w, id)
        \/ SimpleRunStep(w)
        \/ WorkflowRunStep(w)
        \/ FailureStep(w)

Spec == Init /\ [][Next]_vars

\* a workflow of two commands, as the engine's tests build them: a shell step and a
\* maven step that saves its output
ShellWorkflow ==
    << [name |-> "test_shell", type |-> "shell_command", model |-> Absent,
        output_file |-> FALSE, save_artifact |-> FALSE],
       [name |-> "maven_test", type |-> "maven_command", model |-> Absent,
        output_file |-> FALSE, save_artifact |-> TRUE] >>

\* SpecShell: one worker thread over a default run and a workflow run whose
\* commands may exit with 0, exit with another code, or exceed their timeout.
InitShell ==
    InitWith(MixedTypes, {1}, {"Mock"}, 0, 0, 0, 0, {WorkflowSteps, ShellWorkflow},
             SUBSET {"zero", "nonzero", "timeout"} \ {{}}, {NoModels}, {NoEnv})

NextShell ==
    \E w \in Workers :
        \/ BatchStep(w)
        \/ SimpleRunStep(w)
        \/ WorkflowRunStep(w)
        \/ WorkflowFailed(w)
        \/ WorkflowError(w)

SpecShell == InitShell /\ [][NextShell]_vars

\* SpecGenerate: one call of generate, with or without a progress callback, and
\* its heartbeat thread; no worker thread runs.
InitGenerate == InitState(AgentTypes, {}, {"OllamaProvider"}, 0, 0, 0, 0)

NextGenerate ==
    \/ \E cb \in BOOLEAN : \E iv \in Intervals : GenerateCalled(cb, iv)
    \/ \E o \in PostOutcomes : PostReturned(o)
    \/ Finally
    \/ JoinReturned
    \/ HeartbeatWorker
    \/ Tick

SpecGenerate == InitGenerate /\ [][NextGenerate]_vars

\* SpecOverride: apply_model_overrides on every workflow, "models" dict and
\* environment of the model; no worker thread runs.
InitOverride ==
    InitWith(MixedTypes, {}, {"OllamaProvider"}, 0, 0, 0, 0, {WorkflowSteps, NamedWorkflow},
             {{"zero"}}, [OverrideKeys -> {Absent, "", "llama2:latest"}],
             [{"planner", "coder"} -> {Absent, "", "mistral:latest"}])

NextOverride == \E r \in Runs : ApplyModelOverridesCall(r)

SpecOverride == InitOverride /\ [][NextOverride]_vars

\* SpecModels: one worker thread over a default run and a workflow run whose
\* options may carry model overrides; the step executors succeed.
InitModels ==
    InitWith(MixedTypes, {1}, {"Mock"}, 0, 0, 0, 0, {WorkflowSteps}, {{"zero"}},
             [OverrideKeys -> {Absent, "llama2:latest"}], {NoEnv})

NextModels == \E w \in Workers : BatchStep(w) \/ SimpleRunStep(w) \/ WorkflowRunStep(w)

SpecModels == InitModels /\ [][NextModels]_vars

\* SpecSession: one caller that appends events for existing runs, commits and
\* rolls back in any order; no worker thread runs.
InitSession == InitState(AgentTypes, {}, {"Mock"}, 0, 0, 0, 0)

NextSession ==
    \/ \E r \in Runs, o \in LogOutcomes : LogEventCall(r, o)
    \/ SessionCommit
    \/ SessionRollback

SpecSession == InitSession /\ [][NextSession]_vars

\* SpecWorker: a BackgroundWorker whose start() and stop() are called in any
\* order, and the loops of the threads it creates.
InitWorker == InitState(AgentTypes, {}, {"Mock"}, 0, 0, 0, 0)

NextWorker ==
    \/ WorkerStart
    \/ WorkerStop
    \/ JoinDone
    \/ \E t \in LoopThreads : LoopWhile(t) \/ LoopSleep(t) \/ LoopWake(t)
    \/ Elapse

SpecWorker == InitWorker /\ [][NextWorker]_vars

\* SpecRoute: one worker thread and control requests with any action name, on
\* the two runs and on an id that has no row.
InitRoute == InitState(MixedTypes, {1}, {"Mock"}, 0, MaxCtl, 0, 0)

NextRoute ==
    \/ \E w \in Workers : BatchStep(w) \/ SimpleRunStep(w) \/ WorkflowRunStep(w)
    \/ \E r \in Runs \cup {NoRun} : \E a \in ActionNames :
          ControlRun(r, a) \/ ControlRunRefused(r, a)
    \/ ControlRunEvent

SpecRoute == InitRoute /\ [][NextRoute]_vars

\* SpecLoop: the worker loop of one thread over a default run and a workflow
\* run, with failures injected into its iterations and into the executions;
\* the thread keeps running, and every call it makes returns.
InitLoop == InitState(MixedTypes, {1}, {"Mock"}, MaxFaults, 0, 0, 0)

LoopStep(w) ==
    \/ BatchStep(w)
    \/ ProcessQueuedRunsRaises(w)
    \/ WorkerLoopExcept(w)
    \/ SimpleRunStep(w)
    \/ WorkflowRunStep(w)
    \/ FailureStep(w)

NextLoop == \E w \in Workers : LoopStep(w)

SpecLoop == InitLoop /\ [][NextLoop]_vars /\ \A w \in Workers : WF_vars(LoopStep(w))

\* a step of a type, with or without an output_file, marked save_artifact or not
StepShapes ==
    [type : {"llm_generate"}, output_file : BOOLEAN, save_artifact : BOOLEAN]
      \cup [type : {"shell_command", "maven_command"}, output_file : {FALSE},
            save_artifact : BOOLEAN]

\* a WorkflowStep of shape s
Step(n, s) ==
    [name |-> n, type |-> s.type,
     model |-> IF s.type = "llm_generate" THEN "gemma3:27b" ELSE Absent,
     output_file |-> s.output_file, save_artifact |-> s.save_artifact]

\* SpecArtifacts: one worker thread over a default run and a workflow run, for
\* every workflow of two steps of any shapes; the step executors succeed.
InitArtifacts ==
    InitWith(MixedTypes, {1}, {"Mock"}, 0, 0, 0, 0,
             {<<Step("step1", a), Step("step2", b)>> : a \in StepShapes, b \in StepShapes},
             {{"zero"}}, {NoModels}, {NoEnv})

SpecArtifacts == InitArtifacts /\ [][NextModels]_vars

\* SpecControl: one worker thread and the control and directive routes, no failures.
InitControl == InitState(MixedTypes, {1}, {"Mock"}, 0, MaxCtl, MaxDirectives, 0)

NextControl ==
    \/ \E w \in Workers : BatchStep(w) \/ SimpleRunStep(w) \/ WorkflowRunStep(w)
    \/ ControlStep
    \/ PlainDirectiveStep

SpecControl == InitControl /\ [][NextControl]_vars

\* the steps of a workflow run whose first step raises
FailingWorkflowStep(w) ==
    \/ WorkflowLookup(w)
    \/ WorkflowNotFound(w)
    \/ ProjectNotFound(w)
    \/ WorkflowStart(w)
    \/ WorkflowStarted(w)
    \/ StepStarted(w)
    \/ StepExecuted(w)
    \/ WorkflowFailed(w)
    \/ WorkflowError(w)

\* SpecRace: two worker threads racing over a default run and a workflow run,
\* with the provider of the repository; no failure is injected.
InitRace == InitState(MixedTypes, Workers, {"OllamaProvider"}, 0, 0, 0, 0)

NextRace == \E w \in Workers : BatchStep(w) \/ SimpleRunStep(w) \/ FailingWorkflowStep(w)

SpecRace == InitRace /\ [][NextRace]_vars

\* SpecTail: a tail consumer while execute_run is called on default runs and
\* directives arrive.
InitTail == InitState(AgentTypes, {1}, {"OllamaProvider"}, 0, 0, MaxDirectives, MaxDirect)

NextTail ==
    \/ \E w \in Workers :
          \/ \E id \in Runs : ExecuteRunDirect(w, id)
          \/ BatchDone(w)
          \/ SimpleRunStep(w)
    \/ PlainDirectiveStep
    \/ TailStep

SpecTail == InitTail /\ [][NextTail]_vars

\* SpecList: get_run_events while execute_run is called on default runs.
InitList == InitState(AgentTypes, {1}, {"OllamaProvider"}, 0, 0, 0, MaxDirect)

NextList ==
    \/ \E w \in Workers :
          \/ \E id \in Runs : ExecuteRunDirect(w, id)
          \/ BatchDone(w)
          \/ SimpleRunStep(w)
    \/ ListStep

SpecList == InitList /\ [][NextList]_vars

\* SpecApi: direct execute_run calls on a default run and a workflow run, with
\* injected failures, while the control and directive routes are called.
InitApi == InitState(MixedTypes, {1}, Providers, MaxFaults, MaxCtl, MaxDirectives, MaxDirect)

NextApi ==
    \/ \E w \in Workers :
          \/ \E id \in Runs : ExecuteRunDirect(w, id)
          \/ BatchDone(w)
          \/ SimpleRunStep(w)
          \/ WorkflowRunStep(w)
          \/ FailureStep(w)
    \/ ControlStep
    \/ DirectiveStep

SpecApi == InitApi /\ [][NextApi]_vars

\* SpecCancel: one worker thread over a default run and a workflow run whose
\* step executors succeed, while the control route is called.
InitCancel == InitState(MixedTypes, {1}, {"Mock"}, 0, MaxCtl, 0, 0)

NextCancel ==
    \/ \E w \in Workers : BatchStep(w) \/ SimpleRunStep(w) \/ WorkflowRunStep(w)
    \/ ControlStep

SpecCancel == InitCancel /\ [][NextCancel]_vars

\* SpecCreate: runs are created through create_run while one worker thread
\* processes the queue.
InitCreate == InitState(NoTypes, {1}, {"OllamaProvider"}, 0, 0, 0, 0)

NextCreate ==
    \/ \E w \in Workers : BatchStep(w) \/ SimpleRunStep(w)
    \/ CreateStep

SpecCreate == InitCreate /\ [][NextCreate]_vars

\* ------------------------------------------------------------ properties

\* the execute_run call of worker w has ended
Ended(w) == cur[w] # 0 /\ pc[w] \in {"idle", "loop"}

\* an event of run r with type t is appended by the step
Appended(r, t) == \E i \in (Len(events) + 1)..Len(events') : events'[i] = Event(r, t)

\* C1: when concurrent workers call execute_run on a QUEUED run, exactly one
\* conditional update affects its row (the run goes QUEUED -> RUNNING once), and
\* every call whose update affects no row returns False.
ExactlyOneClaim ==
    /\ \A r \in Runs :
          /\ claimed[r] <= 1
          /\ lost[r] > 0 /\ ~preempted[r] => claimed[r] = 1
    /\ \A w \in Workers : updated[w] = 0 => result[w] = "False" /\ Ended(w)

\* two workers called execute_run on the same run: one claimed it, the other
\* found no row and returned False
RaceLost ==
    \E r \in Runs : \E w \in Workers :
        /\ claimed[r] = 1 /\ lost[r] = 1 /\ ~preempted[r]
        /\ cur[w] = r /\ updated[w] = 0 /\ result[w] = "False"

\* C2: a call of execute_run on a run that is not QUEUED (or does not exist)
\* leaves the runs and the event log as they are and returns False.
NotQueuedNoEffect ==
    [][\A w \in Workers :
          pc[w] \in {"claim", "handler"} /\ pc'[w] # pc[w] /\ notQueued'[w]
              => /\ UNCHANGED <<runs, events>>
                 /\ Ended(w)' => result'[w] = "False"]_vars

\* C3: the scheduler's terminal status and its event are committed together: a
\* step that makes a run COMPLETED (FAILED) appends its RUN_COMPLETED
\* (RUN_FAILED), and a step that appends one of these events leaves the run with
\* that status.
FinalizedTogether ==
    [][\A r \in Runs :
          /\ runs'[r].status # runs[r].status /\ runs'[r].status = "COMPLETED"
                => Appended(r, "RUN_COMPLETED")
          /\ runs'[r].status # runs[r].status /\ runs'[r].status = "FAILED"
                => Appended(r, "RUN_FAILED")
          /\ Appended(r, "RUN_COMPLETED") => runs'[r].status = "COMPLETED"
          /\ Appended(r, "RUN_FAILED") => runs'[r].status = "FAILED"]_vars

\* one run finalized as COMPLETED and the other as FAILED
BothFinalized ==
    \E r1, r2 \in Runs :
        /\ runs[r1].status = "COMPLETED" /\ HasEvent(r1, "RUN_COMPLETED")
        /\ runs[r2].status = "FAILED" /\ HasEvent(r2, "RUN_FAILED")

\* C4: a step that makes a run RUNNING, PAUSED or STOPPED appends the event that
\* describes the transition (RUN_STARTED, RUN_RESUME, RUN_PAUSE, RUN_STOP) in the
\* same commit, and a step that appends such an event writes the status.
TransitionsTogether ==
    [][\A r \in Runs :
          /\ runs'[r].status # runs[r].status /\ runs'[r].status = "RUNNING"
                => Appended(r, "RUN_STARTED") \/ Appended(r, "RUN_RESUME")
          /\ runs'[r].status # runs[r].status /\ runs'[r].status = "PAUSED"
                => Appended(r, "RUN_PAUSE")
          /\ runs'[r].status # runs[r].status /\ runs'[r].status = "STOPPED"
                => Appended(r, "RUN_STOP")
          /\ Appended(r, "RUN_STARTED") => runs[r].status = "QUEUED"]_vars

\* C5: execute_run never raises: a call that has ended has returned True or
\* False, whatever failed inside it.
NeverRaises ==
    \A w \in Workers :
        /\ result[w] \in {"none", "True", "False"}
        /\ Ended(w) => result[w] \in {"True", "False"}

\* a call on a workflow run in which something raised has returned False
FailedCallReturned ==
    \E w \in Workers :
        /\ Ended(w) /\ failed[w] /\ result[w] = "False"
        /\ cur[w] \in Runs /\ runs[cur[w]].run_type = "workflow"

SecondaryFailureRolledBack ==
    [][\A w \in Workers :
          secondary'[w] /\ ~secondary[w]
              => /\ UNCHANGED <<runs, events>>
                 /\ sess'[w] = "active"
                 /\ Ended(w)' /\ result'[w] = "False"]_vars

\* the handler's write raised and the run is still RUNNING, with no RUN_FAILED
StuckRunning ==
    \E w \in Workers :
        /\ secondary[w] /\ result[w] = "False"
        /\ cur[w] \in Runs
        /\ runs[cur[w]].status = "RUNNING"
        /\ ~HasEvent(cur[w], "RUN_FAILED")

\* C8: process_queued_runs(max) selects at most max runs, all QUEUED when
\* selected, and calls execute_run on every one of them, whatever the calls
\* before returned: while it iterates, the runs attempted and those still to
\* come are the selection, and when it is done all were attempted.
BatchAttemptsAll ==
    /\ [](\A w \in Workers :
            /\ Cardinality(selected[w]) <= selmax[w]
            /\ pc[w] = "idle" => attempted[w] = selected[w]
            /\ pc[w] \notin {"idle", "off"} =>
                  attempted[w] \cup Range(batch[w]) = selected[w])
    /\ [][\A w \in Workers :
            selected'[w] # selected[w] => selected'[w] \subseteq Queued]_vars

\* a worker is done with a batch of two runs in which one was lost to the other
\* worker and one ended FAILED
BatchSurvivedFailures ==
    \E w \in Workers : \E r1, r2 \in Runs :
        /\ pc[w] = "idle" /\ selected[w] = {r1, r2} /\ r1 # r2
        /\ attempted[w] = selected[w]
        /\ lost[r1] > 0
        /\ runs[r2].status = "FAILED"

TerminalStatus == {"COMPLETED", "FAILED", "STOPPED"}

\* the transitions of the state machine
Transitions ==
    {<<"QUEUED", "RUNNING">>, <<"RUNNING", "COMPLETED">>, <<"RUNNING", "FAILED">>,
     <<"RUNNING", "PAUSED">>, <<"RUNNING", "STOPPED">>, <<"PAUSED", "RUNNING">>}

\* C9: a terminal status (COMPLETED, FAILED, STOPPED) never changes, and every
\* change of status is a transition of the state machine.
StatusMachine ==
    [][\A r \in Runs :
          /\ runs[r].status \in TerminalStatus => runs'[r].status = runs[r].status
          /\ runs'[r].status # runs[r].status
                => <<runs[r].status, runs'[r].status>> \in Transitions]_vars

\* C10: the tail consumer has received exactly the events of its run with an id
\* above its starting cursor and up to the last id it saw, each once and in
\* ascending order; while it is connected the generator's cursor is that last
\* id, and a poll that delivers all it found leaves the consumer with every
\* event of the run committed so far above its starting cursor.
TailExactlyOnce ==
    /\ [](tail.run # 0 =>
            /\ tail.received = IdsBetween(tail.run, tail.start, LastSeen)
            /\ tail.conn => tail.cursor = LastSeen)
    /\ [][tail.conn /\ tail'.conn /\ tail'.received # tail.received
            => tail'.received = IdsBetween(tail.run, tail.start, Len(events))]_vars

\* the consumer reconnected with the last id it saw and has received events
\* committed before and after, with events of the other run in between
TailResumed ==
    /\ tail.resumed /\ tail.conn
    /\ tail.start > 0
    /\ Len(tail.received) >= 4
    /\ NewEvents(tail.run, tail.cursor) = <<>>
    /\ \E i \in (tail.start + 1)..LastSeen : events[i].run_id # tail.run

\* C11: a listing of the events of a run holds exactly the events committed when
\* it was served whose run_id is that run and whose id is greater than after_id
\* (all of the run's events when after_id is absent or 0), each row as committed,
\* in strictly increasing id order.
ListingExact ==
    resp.op = "events" =>
        /\ {resp.body[i].id : i \in 1..Len(resp.body)}
              = {n \in 1..resp.at : events[n].run_id = resp.run
                                    /\ (resp.given => n > resp.after)}
        /\ \A i \in 1..Len(resp.body) :
              /\ resp.body[i] = Row(resp.body[i].id)
              /\ i > 1 => resp.body[i - 1].id < resp.body[i].id

\* a listing with a positive after_id that left out earlier events of the run and
\* returned later ones, with events of the other run in between
ListedAfter ==
    /\ resp.op = "events" /\ resp.given /\ resp.after >= 1
    /\ Len(resp.body) >= 2
    /\ \E n \in 1..resp.after : events[n].run_id = resp.run
    /\ \E n \in (resp.after + 1)..resp.at : events[n].run_id # resp.run


\* C12: the event log is append-only.  Every step keeps the committed events as
\* they are, at their ids (an id is the position in the log), and the events it
\* commits come after all of them.
AppendOnly ==
    [][/\ Len(events') >= Len(events)
       /\ \A i \in 1..Len(events) : events'[i] = events[i]]_vars

\* the log grew past its initial events through the scheduler, the workflow
\* engine and both routes, and a failed transaction was rolled back
LogGrewEverywhere ==
    /\ \E r \in Runs : HasEvent(r, "RUN_STARTED")
    /\ \E r \in Runs : HasEvent(r, "WORKFLOW_STARTED")
    /\ \E i \in 1..Len(events) : events[i].type = "DIRECTIVE"
    /\ \E i \in 1..Len(events) : events[i].type = "RUN_STOP"
    /\ faultsLeft < MaxFaults


\* the event types execute_run appended for run r, in the order of their ids
SchedulerEvents(r) ==
    LET ByScheduler(e) ==
            /\ e.run_id = r
            /\ e.type \notin {"RUN_CREATED", "DIRECTIVE", "RUN_PAUSE", "RUN_RESUME", "RUN_STOP"}
        own == SelectSeq(events, ByScheduler)
    IN  [i \in 1..Len(own) |-> own[i].type]

\* the execute_run call of worker w claimed a default run and met no
\* infrastructure error
SimpleRunExecuted(w) ==
    /\ Ended(w)
    /\ cur[w] \in Runs
    /\ runs[cur[w]].run_type # "workflow"
    /\ updated[w] = 1
    /\ ~failed[w]

\* C13: a default run that was claimed and executed without an infrastructure
\* error ends COMPLETED with current_iteration 4, and the scheduler appended
\* RUN_STARTED, AGENT_THINKING, PLAN_GENERATED, EXECUTING, RUN_COMPLETED for it,
\* in this order.
SimpleRunSuccessFlow ==
    \A w \in Workers :
        SimpleRunExecuted(w) =>
            /\ result[w] = "True"
            /\ runs[cur[w]].status = "COMPLETED"
            /\ runs[cur[w]].current_iteration = 4
            /\ SchedulerEvents(cur[w]) = <<"RUN_STARTED", "AGENT_THINKING", "PLAN_GENERATED",
                                           "EXECUTING", "RUN_COMPLETED">>

\* a default run was executed to its end after a failed call on the other run
SimpleRunCompleted ==
    /\ \E w \in Workers : SimpleRunExecuted(w)
    /\ faultsLeft < MaxFaults


\* C14: a run for which a pause or stop was committed while it was QUEUED is
\* never claimed or executed afterwards: no conditional update affects its row,
\* no call is executing it and it has no RUN_STARTED event.
PausedQueuedNeverClaimed ==
    \A r \in Runs :
        "queued" \in ctlAt[r] =>
            /\ claimed[r] = 0
            /\ ~InExecution(r)
            /\ ~HasEvent(r, "RUN_STARTED")

\* a worker selected a run into its batch, the run was paused or stopped while
\* still QUEUED, and the worker's execute_run call on it found no row
PausedAfterSelection ==
    \E w \in Workers : \E r \in Runs :
        /\ "queued" \in ctlAt[r]
        /\ r \in selected[w]
        /\ cur[w] = r /\ Ended(w) /\ updated[w] = 0

\* the events of the steps i..n of the workflow, when every step succeeds
RECURSIVE StepEvents(_)
StepEvents(i) ==
    IF i > Len(WorkflowSteps) THEN <<>>
    ELSE <<"STEP_STARTED">>
         \o (IF WorkflowSteps[i].type = "llm_generate" THEN <<>> ELSE <<"SHELL_EXECUTING">>)
         \o <<"STEP_COMPLETED">>
         \o (IF HasArtifactPath(i) THEN <<"ARTIFACT_CREATED">> ELSE <<>>)
         \o StepEvents(i + 1)

\* the events of a workflow run all of whose steps succeed
WorkflowSuccessFlow ==
    <<"RUN_STARTED", "WORKFLOW_LOOKUP", "WORKFLOW_START", "WORKFLOW_STARTED">>
    \o StepEvents(1)
    \o <<"WORKFLOW_COMPLETED", "WORKFLOW_SUMMARY", "RUN_COMPLETED">>

\* the events of the execute_run calls that run to their end when nothing raises
CompleteFlows(type) ==
    IF type = "workflow"
    THEN {WorkflowSuccessFlow,
          <<"RUN_STARTED", "WORKFLOW_LOOKUP", "WORKFLOW_NOT_FOUND", "RUN_FAILED">>,
          <<"RUN_STARTED", "WORKFLOW_LOOKUP", "PROJECT_NOT_FOUND", "RUN_FAILED">>}
    ELSE {<<"RUN_STARTED", "AGENT_THINKING", "PLAN_GENERATED", "EXECUTING", "RUN_COMPLETED">>}

\* C15: a pause or stop committed while a worker executes a run it claimed does
\* not interrupt the worker: its call ends with all the events of the remaining
\* phases or steps appended, and its finalization writes the run's status.
ControlDoesNotInterrupt ==
    /\ [](\A w \in Workers :
             Ended(w) /\ cur[w] \in Runs /\ updated[w] = 1 /\ "executing" \in ctlAt[cur[w]]
                 => SchedulerEvents(cur[w]) \in CompleteFlows(runs[cur[w]].run_type))
    /\ [][\A w \in Workers :
             pc[w] = "finalize" /\ pc'[w] = "loop"
                 => runs'[cur[w]].status = IF success[w] THEN "COMPLETED" ELSE "FAILED"]_vars

\* a workflow run was paused or stopped while its worker executed it, and the
\* worker went through all the steps and finalized it
StoppedRunCompleted ==
    \E w \in Workers :
        /\ Ended(w) /\ cur[w] \in Runs /\ updated[w] = 1
        /\ "executing" \in ctlAt[cur[w]]
        /\ SchedulerEvents(cur[w]) = WorkflowSuccessFlow
        /\ runs[cur[w]].status = "COMPLETED"


\* C16: a directive on an existing run appends exactly one event, of type
\* DIRECTIVE with the submitted text for that run, and leaves every run's status
\* and current_iteration as they are; on a run id that does not exist it is
\* answered 404 and appends nothing.
DirectiveAppendsOne ==
    [][dirLeft' # dirLeft =>
          /\ resp'.op = "directive"
          /\ runs' = runs
          /\ IF RunExists(resp'.run)
             THEN /\ resp'.code = 200
                  /\ events' = Append(events, [run_id |-> resp'.run, type |-> "DIRECTIVE",
                                               payload |-> resp'.text])
             ELSE /\ resp'.code = 404
                  /\ events' = events]_vars

\* a directive was accepted for a run while a worker was executing it
DirectiveDuringExecution ==
    /\ resp.op = "directive" /\ resp.code = 200 /\ resp.text = "b"
    /\ InExecution(resp.run)
    /\ events[Len(events)] = EventWith(resp.run, "DIRECTIVE", "b")
    /\ runs[resp.run].status \in {"PAUSED", "STOPPED"}


\* C17: a create-run request whose provider (the default one when none is
\* named) is unknown or fails its health check is answered with a client error
\* and creates nothing: no row, and no RUN_CREATED event to come; an accepted
\* request creates the next run QUEUED with current_iteration 0 and the resolved
\* provider and model in its options.  Rows, RUN_CREATED events and claims exist
\* only for runs that were accepted.
CreateRunValidates ==
    /\ [](/\ \A r \in Runs :
               /\ RunExists(r) => runs[r].options.provider \in {"ollama", "gemini"}
               /\ claimed[r] > 0 => RunExists(r)
          /\ \A i \in 1..Len(events) : RunExists(events[i].run_id))
    /\ [][resp' # resp /\ resp'.op = "create" /\ resp'.code # 200 =>
             LET q == resp'.create
                 named == IF q.provider = "" THEN "ollama" ELSE q.provider
             IN  IF named \notin {"ollama", "gemini"} \/ named \notin q.healthy \/ ~q.project
                 THEN /\ resp'.code = IF q.project THEN 400 ELSE 404
                      /\ runs' = runs
                      /\ events' = events
                      /\ api' = NoReq
                 ELSE /\ resp'.code = 0
                      /\ ~RunExists(resp'.run)
                      /\ runs'[resp'.run].status = "QUEUED"
                      /\ runs'[resp'.run].current_iteration = 0
                      /\ runs'[resp'.run].options.provider = named
                      /\ runs'[resp'.run].options.model =
                            IF q.model # "" THEN q.model
                            ELSE IF named = "ollama" THEN "gemma3:27b"
                            ELSE "gemini-1.5-flash"
                      /\ \A r \in Runs \ {resp'.run} : runs'[r] = runs[r]
                      /\ events' = events]_vars

\* a run was created with a provider that was healthy and then claimed; a later
\* request naming the same provider, now unhealthy, was refused and left the
\* second id without a row
UnhealthyProviderRefused ==
    /\ resp.op = "create" /\ resp.code = 400
    /\ resp.create.provider = "gemini" /\ "gemini" \notin resp.create.healthy
    /\ RunExists(1)
    /\ runs[1].options.provider = "gemini" /\ runs[1].options.model = "gemini-1.5-flash"
    /\ claimed[1] = 1
    /\ ~RunExists(2)


\* the notifications of execute_workflow logged for run r, as <<type, message>>,
\* in the order of their ids
Notifications(r) ==
    LET ByEngine(e) ==
            /\ e.run_id = r
            /\ e.type \in {"WORKFLOW_STARTED", "STEP_STARTED", "STEP_COMPLETED",
                            "WORKFLOW_COMPLETED"}
        own == SelectSeq(events, ByEngine)
    IN  [i \in 1..Len(own) |-> <<own[i].type, own[i].payload>>]

\* STEP_STARTED and STEP_COMPLETED of the steps i..n, in list order
RECURSIVE StepsInOrder(_, _)
StepsInOrder(i, n) ==
    IF i > n THEN <<>>
    ELSE << <<"STEP_STARTED", ToString(i)>>, <<"STEP_COMPLETED", ToString(i)>> >>
         \o StepsInOrder(i + 1, n)

\* the notifications of a workflow of n steps that is executed to its end
InOrder(n) ==
    << <<"WORKFLOW_STARTED", "-">> >> \o StepsInOrder(1, n) \o << <<"WORKFLOW_COMPLETED", "-">> >>

\* C18: the steps run strictly in list order, one at a time, none skipped.  At
\* every moment the notifications of a run are a prefix of WORKFLOW_STARTED,
\* STEP_STARTED 1, STEP_COMPLETED 1, ..., STEP_STARTED n, STEP_COMPLETED n,
\* WORKFLOW_COMPLETED.
StepsStrictlyInOrder ==
    \A r \in Runs :
        /\ Len(Notifications(r)) <= Len(InOrder(Len(WorkflowSteps)))
        /\ Notifications(r) = SubSeq(InOrder(Len(WorkflowSteps)), 1, Len(Notifications(r)))

\* a workflow was executed through all its steps, after a failed call
AllStepsRan ==
    /\ \E r \in Runs : Notifications(r) = InOrder(Len(WorkflowSteps))
    /\ faultsLeft < MaxFaults


\* nothing but the executor of step k raised so far: a TypeError of the generate
\* call is no injected failure
OnlyStepRaised(k) == faultsLeft = MaxFaults - (IF StepTypeError(k) THEN 0 ELSE 1)

\* C19: when the executor of step k raises, no later step starts and step k does
\* not complete, there is never more than one WORKFLOW_FAILED and never a
\* WORKFLOW_COMPLETED, the failure reaches _execute_workflow_run (the call is in
\* its failure path and returns False), and when nothing else fails the run
\* ends with WORKFLOW_FAILED, WORKFLOW_ERROR, RUN_FAILED and status FAILED.
StepFailureStopsWorkflow ==
    \A r \in Runs :
        raisedAt[r] > 0 =>
            /\ Notifications(r) = SubSeq(InOrder(Len(WorkflowSteps)), 1, 2 * raisedAt[r])
            /\ CountEvents(events, r, "WORKFLOW_FAILED") <= 1
            /\ \A w \in Workers :
                  cur[w] = r /\ updated[w] = 1 =>
                      /\ pc[w] \in {"wf_failed", "wf_error", "finalize", "handler", "loop", "idle"}
                      /\ ~success[w]
                      /\ Ended(w) => result[w] = "False"
                      /\ Ended(w) /\ ~secondary[w] => runs[r].status = "FAILED"
                      /\ Ended(w) /\ OnlyStepRaised(raisedAt[r]) =>
                            LET s == SchedulerEvents(r)
                            IN  /\ Len(s) >= 3
                                /\ SubSeq(s, Len(s) - 2, Len(s))
                                      = <<"WORKFLOW_FAILED", "WORKFLOW_ERROR", "RUN_FAILED">>
                                /\ CountEvents(events, r, "WORKFLOW_FAILED") = 1

\* the second step of a workflow raised after the first had completed, and the
\* run was finalized FAILED
SecondStepRaised ==
    \E w \in Workers : \E r \in Runs :
        /\ raisedAt[r] = 2 /\ OnlyStepRaised(2)
        /\ cur[w] = r /\ updated[w] = 1 /\ Ended(w)
        /\ runs[r].status = "FAILED"
        /\ HasEvent(r, "WORKFLOW_FAILED")


\* the number of events of type t of run r
CountType(r, t) ==
    Cardinality({i \in 1..Len(events) : events[i].run_id = r /\ events[i].type = t})

\* the execute_run call of worker w claimed a workflow run whose options name
\* no workflow, and has ended
BootstrapRunEnded(w) ==
    /\ Ended(w)
    /\ cur[w] \in Runs
    /\ runs[cur[w]].run_type = "workflow"
    /\ runs[cur[w]].options.workflow_name = ""
    /\ updated[w] = 1

\* C20: a workflow run whose options name no workflow looks up and executes
\* quarkus-bootstrap-v1 (it is never WORKFLOW_NOT_FOUND), and when its project
\* exists and every step executor call succeeds, with no other failure, it ends
\* COMPLETED with as many STEP_STARTED and STEP_COMPLETED events as the workflow
\* has steps, one WORKFLOW_SUMMARY, and RUN_COMPLETED as its last scheduler event.
BootstrapWorkflowCompletes ==
    \A w \in Workers :
        BootstrapRunEnded(w) =>
            LET r == cur[w]
                s == SchedulerEvents(r)
            IN  /\ CountType(r, "WORKFLOW_NOT_FOUND") = 0
                /\ \A i \in 1..Len(events) :
                      events[i].run_id = r /\ events[i].type = "WORKFLOW_LOOKUP"
                          => events[i].payload = "quarkus-bootstrap-v1"
                /\ ~failed[w] /\ CountType(r, "PROJECT_NOT_FOUND") = 0 =>
                      /\ result[w] = "True"
                      /\ runs[r].status = "COMPLETED"
                      /\ CountType(r, "STEP_STARTED") = Len(WorkflowSteps)
                      /\ CountType(r, "STEP_COMPLETED") = Len(WorkflowSteps)
                      /\ CountType(r, "WORKFLOW_SUMMARY") = 1
                      /\ s # <<>> /\ s[Len(s)] = "RUN_COMPLETED"

\* a workflow run without a workflow name went through all the steps of
\* quarkus-bootstrap-v1 and was completed
BootstrapRunCompleted ==
    \E w \in Workers :
        /\ BootstrapRunEnded(w)
        /\ ~failed[w]
        /\ CountType(cur[w], "STEP_COMPLETED") = 3
        /\ runs[cur[w]].status = "COMPLETED"


\* C21: an unregistered workflow name or a missing project is discovered only
\* after the claim (the run is claimed and the call past RUN_STARTED), no
\* workflow step is executed for the run, the call returns False, and the run
\* ends FAILED: with WORKFLOW_NOT_FOUND or PROJECT_NOT_FOUND followed by
\* RUN_FAILED when nothing else fails, and FAILED whenever the handler's own
\* write did not fail.
MissingDependencyFails ==
    \A w \in Workers :
        cur[w] \in Runs /\ updated[w] = 1 /\ runs[cur[w]].run_type = "workflow" =>
            LET r == cur[w]
                missing == CountType(r, "WORKFLOW_NOT_FOUND") + CountType(r, "PROJECT_NOT_FOUND")
            IN  /\ pc[w] \in {"wf_notfound", "wf_noproject"} =>
                      /\ claimed[r] = 1
                      /\ runs[r].status = "RUNNING"
                      /\ SchedulerEvents(r) = <<"RUN_STARTED", "WORKFLOW_LOOKUP">>
                /\ pc[w] = "wf_notfound" <=>
                      pc[w] \in {"wf_notfound", "wf_noproject", "wf_start"}
                          /\ WorkflowName(r) \notin WorkflowRegistry
                /\ missing > 0 =>
                      /\ missing = 1
                      /\ CountType(r, "WORKFLOW_START") = 0
                      /\ CountType(r, "STEP_STARTED") = 0
                      /\ wfstep[w] = 0
                      /\ Ended(w) => result[w] = "False"
                      /\ Ended(w) /\ ~secondary[w] => runs[r].status = "FAILED"
                      /\ Ended(w) /\ ~failed[w] =>
                            SchedulerEvents(r) \in
                                {<<"RUN_STARTED", "WORKFLOW_LOOKUP", "WORKFLOW_NOT_FOUND", "RUN_FAILED">>,
                                 <<"RUN_STARTED", "WORKFLOW_LOOKUP", "PROJECT_NOT_FOUND", "RUN_FAILED">>}

\* a run naming an unregistered workflow was claimed, found unprocessable and
\* marked FAILED
UnregisteredWorkflowFailed ==
    \E w \in Workers :
        /\ Ended(w) /\ cur[w] \in Runs /\ updated[w] = 1 /\ ~failed[w]
        /\ WorkflowName(cur[w]) = "nope"
        /\ CountType(cur[w], "WORKFLOW_NOT_FOUND") = 1
        /\ CountType(cur[w], "RUN_FAILED") = 1
        /\ runs[cur[w]].status = "FAILED"

\* C22: a command that exits non-zero does not raise.  Its step yields a
\* completed result with success false, which execute_workflow records and
\* follows with STEP_COMPLETED; the steps after it execute and the workflow runs
\* to WORKFLOW_COMPLETED.  A step executor raises only for a command that
\* exceeds its timeout, and then no result is recorded for the step, the
\* workflow is aborted and the run ends FAILED.
ShellFailureDoesNotRaise ==
    \A w \in Workers :
        cur[w] \in Runs /\ updated[w] = 1 /\ runs[cur[w]].run_type = "workflow" =>
            LET r == cur[w]
                n == Len(workflow)
                done == Len(results[w])
            IN  /\ \A i \in 1..done :
                      /\ results[w][i].status = "completed"
                      /\ results[w][i].success = "False" =>
                            workflow[i].type # "llm_generate" /\ "nonzero" \in exits
                      /\ workflow[i].type # "llm_generate" /\ exits = {"nonzero"} =>
                            results[w][i].success = "False"
                /\ CountType(r, "STEP_COMPLETED") =
                      IF pc[w] = "step_completed" THEN done - 1 ELSE done
                /\ Ended(w) /\ raisedAt[r] = 0 /\ CountType(r, "WORKFLOW_START") = 1 =>
                      /\ done = n
                      /\ Notifications(r) = InOrder(n)
                      /\ result[w] = "True"
                      /\ runs[r].status = "COMPLETED"
                /\ raisedAt[r] > 0 =>
                      /\ "timeout" \in exits
                      /\ workflow[raisedAt[r]].type # "llm_generate"
                      /\ done = raisedAt[r] - 1
                      /\ CountType(r, "WORKFLOW_COMPLETED") = 0
                      /\ Ended(w) => result[w] = "False" /\ runs[r].status = "FAILED"

\* the first command of a workflow exited non-zero, the second step executed
\* after it and the run completed
StepAfterFailedCommand ==
    \E w \in Workers :
        /\ Ended(w) /\ cur[w] \in Runs /\ workflow = ShellWorkflow
        /\ Len(results[w]) = 2
        /\ results[w][1].success = "False" /\ results[w][2].success = "True"
        /\ Notifications(cur[w]) = InOrder(2)
        /\ runs[cur[w]].status = "COMPLETED"

\* the positions of `emitted` that hold a terminal event
Terminals == {i \in DOMAIN emitted : emitted[i].type \in {"DONE", "ERROR"}}

\* C23: a generate call with a progress callback emits LOADING_MODEL, then
\* GENERATING, then HEARTBEATs only, then exactly one terminal event, DONE on
\* success and ERROR on failure, which is the last event of the call: nothing,
\* and no HEARTBEAT in particular, is emitted after it.
GenerateEventOrder ==
    event_callback /\ gpc # "idle" =>
        /\ Len(emitted) >= 2
        /\ emitted[1].type = "LOADING_MODEL"
        /\ emitted[2].type = "GENERATING"
        /\ \A i \in 3..Len(emitted) : emitted[i].type \in {"HEARTBEAT", "DONE", "ERROR"}
        /\ Cardinality(Terminals) = IF gpc = "post" THEN 0 ELSE 1
        /\ \A i \in Terminals :
              /\ emitted[i].type = IF outcome = "ok" THEN "DONE" ELSE "ERROR"
              /\ i = Len(emitted)

\* generate has returned or raised
Left == gpc \in {"returned", "raised"}

\* C24 as stated: once generate has returned or raised, the heartbeat thread is
\* no longer running.
NotifierStoppedOnReturn == Left => heartbeat_thread \in {"none", "ended"}

\* a started heartbeat thread has been signalled when generate is in its join
\* or has left, and a thread that outlives generate is in or after a HEARTBEAT
\* callback that ran for JoinTimeout or longer
StopSignalled ==
    /\ (gpc \in {"join", "returned", "raised"} /\ heartbeat_thread # "none")
          => heartbeat_stop
    /\ heartbeat_stop
          => (heartbeat_thread # "none" /\ gpc \in {"join", "returned", "raised"})
    /\ (Left /\ heartbeat_thread \notin {"none", "ended"})
          => (slow /\ now >= joinDue)

\* C24, amended: on every path a started heartbeat thread is signalled to stop
\* before generate returns or raises, and once generate has left the callback
\* is called no more; the thread itself has ended by then unless a HEARTBEAT
\* callback ran for a second or more, in which case the join gave up after
\* its second and the thread ends when that callback has returned.
NotifierSignalledOnReturn ==
    /\ []StopSignalled
    /\ [][Left => emitted' = emitted]_vars

\* generate raised after heartbeats were emitted, and its heartbeat thread has ended
NotifierEndedOnFailure ==
    /\ gpc = "raised" /\ heartbeat_thread = "ended" /\ ~slow
    /\ \E i \in DOMAIN emitted : emitted[i].type = "HEARTBEAT"

\* the HEARTBEAT notifications of the call, in order
Heartbeats ==
    LET IsHeartbeat(e) == e.type = "HEARTBEAT"
    IN  SelectSeq(emitted, IsHeartbeat)

KeepaliveOnlyWhenIdle == tail.keepalive # "busy"

SessionsOpen(w) ==
    (IF pc[w] \notin {"off", "idle"} /\ selmax[w] > 0 THEN {"process_queued_runs"} ELSE {})
    \cup (IF pc[w] \notin {"off", "idle", "loop"} THEN {"execute_run"} ELSE {})

\* worker w is in a step executor: a generate call or a command is outstanding
Blocking(w) == pc[w] = "step_exec"

\* C28: no session is held open across a blocking external call: while a
\* generate call or a command is outstanding, the worker holds no open session,
\* neither that of the batch nor that of the call.
NoSessionAcrossBlockingCall == \A w \in Workers : Blocking(w) => SessionsOpen(w) = {}

\* C29: apply_model_overrides returns the workflow's steps in number and order,
\* every step that is not a generate step unchanged, and every generate step
\* unchanged but for its model: the run's override for the step's (lower-cased)
\* name when there is a non-empty one, else the environment's model for that
\* name when that is set and not empty, else the step's built-in model.
ModelOverridePriority ==
    applied.called =>
        LET wf == applied.workflow
            ov == applied.model_overrides
            new == applied.steps
        IN  /\ Len(new) = Len(wf)
            /\ \A i \in 1..Len(wf) :
                  LET k == IF wf[i].name = "Planner" THEN "planner" ELSE wf[i].name
                      explicit == IF k \in OverrideKeys THEN ov[k] ELSE Absent
                      default == IF k \in {"planner", "coder"} THEN env_models[k] ELSE Absent
                  IN  /\ new[i].name = wf[i].name /\ new[i].type = wf[i].type
                      /\ wf[i].type # "llm_generate" => new[i] = wf[i]
                      /\ wf[i].type = "llm_generate" =>
                            /\ new[i] = [wf[i] EXCEPT !.model = new[i].model]
                            /\ new[i].model =
                                  CASE explicit \notin {Absent, ""} -> explicit
                                    [] explicit \in {Absent, ""} /\ default \notin {Absent, ""} -> default
                                    [] OTHER -> wf[i].model

\* quarkus-bootstrap-v1 with an override for the planner and an environment
\* that names models for planner and coder: the planner got the override, the
\* coder the environment's model, the maven step is as it was
OverrideBeatsEnvironment ==
    /\ applied.called /\ applied.workflow = WorkflowSteps
    /\ applied.model_overrides["planner"] = "llama2:latest"
    /\ applied.model_overrides["coder"] = Absent
    /\ applied.model_overrides["maven_test"] = "llama2:latest"
    /\ env_models["planner"] = "mistral:latest" /\ env_models["coder"] = "mistral:latest"
    /\ applied.steps[1].model = "llama2:latest"
    /\ applied.steps[2].model = "mistral:latest"
    /\ applied.steps[3] = WorkflowSteps[3]

\* C30: the workflow execute_run hands to the engine is the registered workflow
\* with the model overrides of the run's options applied: every generate step
\* is executed with the overridden model when the options name one, and with
\* the built-in model when they do not.
EngineGetsOverriddenModels ==
    \A w \in Workers :
        (pc[w] = "step_exec" /\ workflow[wfstep[w]].type = "llm_generate") =>
            EngineWorkflow(w)[wfstep[w]].model =
                ApplyModelOverrides(workflow, runs[cur[w]].options.models,
                                    env_models)[wfstep[w]].model

\* the names of the steps 1..n of the workflow that satisfy Recorded, in order
NamesOf(n, Recorded(_)) ==
    LET F[i \in 0..n] ==
            IF i = 0 THEN <<>>
            ELSE IF Recorded(i) THEN Append(F[i - 1], workflow[i].name) ELSE F[i - 1]
    IN  F[n]

\* C31 (as stated): the artifact list of a workflow result holds exactly the
\* steps marked save_artifact, whatever their type.
ArtifactsAreMarkedSteps ==
    \A w \in Workers :
        LET Marked(i) == workflow[i].save_artifact
        IN  artifacts[w] = NamesOf(Len(results[w]), Marked)

\* C31: the artifact list of a workflow result holds, in step order, exactly the
\* executed steps that are marked save_artifact and whose result carries an
\* artifact path: every marked command step (shell or maven), and a marked
\* generate step when it names an output file; no step that is not marked
\* save_artifact is in the list.
ArtifactsAreMarkedStepsWithPath ==
    \A w \in Workers :
        LET MarkedWithPath(i) ==
                /\ workflow[i].save_artifact
                /\ workflow[i].type = "llm_generate" => workflow[i].output_file
        IN  /\ artifacts[w] = NamesOf(Len(results[w]), MarkedWithPath)
            /\ \A k \in 1..Len(artifacts[w]) :
                  \E i \in 1..Len(results[w]) :
                      workflow[i].name = artifacts[w][k] /\ workflow[i].save_artifact

\* a workflow of a marked generate step without output file and a marked shell
\* step completed: only the shell step is in the artifact list
MarkedStepWithoutPathCompleted ==
    \E w \in Workers :
        /\ pc[w] = "wf_summary" /\ Len(results[w]) = 2
        /\ workflow[1].type = "llm_generate" /\ workflow[1].save_artifact
        /\ ~workflow[1].output_file
        /\ workflow[2].type = "shell_command" /\ workflow[2].save_artifact
        /\ artifacts[w] = <<"step2">>

\* the step is a call on the session that ended in one of `kinds`
SessionStep(kinds) == session'.ops = session.ops + 1 /\ session'.last \in kinds

\* what _log_event, commit and rollback do to the committed table: an append
\* changes nothing another session reads and does not raise; the table changes
\* only by a commit, which adds the pending events; a rollback changes nothing
\* and empties the transaction
AppendThenCommit ==
    /\ SessionStep({"appended", "swallowed_add", "swallowed_flush"}) =>
            events' = events /\ ~session'.raised
    /\ SessionStep({"appended"}) =>
            /\ Len(session'.pending) = Len(session.pending) + 1
            /\ SubSeq(session'.pending, 1, Len(session.pending)) = session.pending
    /\ events' # events =>
            SessionStep({"committed"}) /\ events' = events \o session.pending
    /\ SessionStep({"rolled_back"}) => events' = events /\ session'.pending = <<>>

\* no event of the open transaction or of a transaction rolled back is in the
\* committed table
UncommittedInvisible ==
    (Range(session.pending) \cup session.dropped) \cap Range(events) = {}

\* a failed append leaves the caller's transaction as it was
FailedAppendKeepsTransaction ==
    SessionStep({"swallowed_add", "swallowed_flush"}) =>
        session'.pending = session.pending /\ session'.state = session.state

\* a failed append leaves the caller's transaction as it was unless the flush
\* failed; a failed flush leaves the session inactive, and an inactive session
\* commits nothing (its commit raises) until the caller rolls back
FailedFlushEndsTransaction ==
    /\ SessionStep({"swallowed_add"}) =>
            session'.pending = session.pending /\ session'.state = session.state
    /\ SessionStep({"swallowed_flush"}) =>
            session'.state = "inactive" /\ session'.pending = <<>>
    /\ session.state = "inactive" =>
            /\ events' = events
            /\ SessionStep({"commit_raised"}) => session'.raised
            /\ session'.state = "active" => SessionStep({"rolled_back"})

OneWorkerLoop == Cardinality(Alive) <= 1

\* the step is the first commit of a control_run request, its second commit, a
\* control_run request that was refused
ControlAccepted == api = NoReq /\ api' # NoReq /\ api'.action # "create"
ControlLogged == api # NoReq /\ api.action # "create" /\ api' = NoReq
ControlRefused == ctlLeft' # ctlLeft /\ api' = api

\* what a control_run request does: accepted, it sets the status its action
\* maps to and then appends one event of the action's type, and no other step
\* appends a control event; refused, it changes nothing
ControlEffect ==
    /\ ControlAccepted =>
          /\ api'.run \in Runs /\ runs[api'.run].status # "ABSENT"
          /\ runs' = [runs EXCEPT ![api'.run].status =
                          CASE api'.action = "pause" -> "PAUSED"
                            [] api'.action = "resume" -> "RUNNING"
                            [] api'.action = "stop" -> "STOPPED"]
          /\ events' = events
    /\ ControlLogged =>
          /\ runs' = runs
          /\ events' = Append(events,
                              Event(api.run, CASE api.action = "pause" -> "RUN_PAUSE"
                                               [] api.action = "resume" -> "RUN_RESUME"
                                               [] api.action = "stop" -> "RUN_STOP"))
    /\ \A r \in Runs : \A t \in {"RUN_PAUSE", "RUN_RESUME", "RUN_STOP"} :
          CountEvents(events', r, t) # CountEvents(events, r, t) => ControlLogged
    /\ ControlRefused =>
          /\ resp'.op = "control" /\ resp'.code \in {400, 404}
          /\ runs' = runs /\ events' = events /\ api' = api
    /\ ctlLeft' # ctlLeft => ControlAccepted \/ ControlRefused

\* C34 (as stated): a valid control action (pause, resume, stop) on an existing
\* run sets its status to PAUSED, RUNNING or STOPPED and appends exactly one
\* RUN_PAUSE, RUN_RESUME or RUN_STOP event for it; an action outside that set,
\* or any action on a run id that does not exist, is refused and leaves every
\* status and the event log unchanged.
ControlOnlyNamedActions ==
    [][/\ ControlEffect
       /\ ControlAccepted => api'.name \in {"pause", "resume", "stop"}
       /\ ControlRefused =>
             resp'.text \notin {"pause", "resume", "stop"} \/ resp'.run \notin Runs]_vars

\* C34: a control action that is pause, resume or stop in any letter case, on an
\* existing run, sets its status to PAUSED, RUNNING or STOPPED and appends
\* exactly one RUN_PAUSE, RUN_RESUME or RUN_STOP event for it; any other action,
\* or any action on a run id that does not exist, is refused and leaves every
\* status and the event log unchanged.
ControlActionsAnyCase ==
    [][/\ ControlEffect
       /\ ControlAccepted =>
             api'.name \in {"pause", "resume", "stop", "PAUSE"}
               /\ api'.action = (IF api'.name = "PAUSE" THEN "pause" ELSE api'.name)
       /\ ControlRefused =>
             \/ resp'.text \notin {"pause", "resume", "stop", "PAUSE"}
             \/ resp'.run \notin Runs]_vars

\* a request with action PAUSE was accepted: the run is PAUSED and its RUN_PAUSE
\* event is about to be appended
UpperCasePauseAccepted ==
    /\ api.name = "PAUSE" /\ api.action = "pause"
    /\ runs[api.run].status = "PAUSED"

\* C35: while the worker loop runs, every QUEUED run is eventually claimed by
\* an execute_run call unless something else (a control action, a failure
\* handler) takes it out of QUEUED first, also when more runs are queued than
\* the batch holds and when an iteration raises: the loop goes on polling.
QueuedEventuallyClaimed ==
    \A r \in Runs :
        (runs[r].status = "QUEUED") ~> (claimed[r] > 0 \/ preempted[r])

\* an iteration has raised while a run is queued that the batch before it, of
\* size one, had left behind
IterationRaisedWithRunQueued ==
    \E w \in Workers :
        /\ pc[w] = "except" /\ selmax[w] = 1
        /\ \E r, q \in Runs : claimed[r] = 1 /\ runs[q].status = "QUEUED" /\ claimed[q] = 0

\* the execute_run calls that have claimed run r and are executing it
ClaimantsOf(r) ==
    {w \in Workers : cur[w] = r /\ updated[w] = 1 /\ pc[w] \notin {"idle", "loop", "off"}}

\* a RUNNING run is being executed by exactly one execute_run call, which has
\* claimed it
RunningIsExecuted ==
    \A r \in Runs : runs[r].status = "RUNNING" => Cardinality(ClaimantsOf(r)) = 1

\* C36: status and current_iteration of a run are written only by the
\* execute_run call that claimed it, and whenever a run is RUNNING exactly one
\* execute_run call has claimed it and is executing it: no run is RUNNING
\* without a worker that will drive it to a terminal status.
OnlyClaimantMutates ==
    /\ []RunningIsExecuted
    /\ [][\A r \in Runs :
            (runs'[r].status # runs[r].status
               \/ runs'[r].current_iteration # runs[r].current_iteration)
            => \E w \in Workers : cur'[w] = r /\ updated'[w] = 1 /\ pc[w] # "idle"]_vars

\* C37: every run that was claimed eventually reaches COMPLETED or FAILED when
\* every step executor call and delay returns, whatever fails during its
\* execution or its finalization: no claimed run stays RUNNING forever.
ClaimedEventuallyTerminal ==
    \A r \in Runs :
        (claimed[r] > 0) ~> (runs[r].status \in {"COMPLETED", "FAILED"})

\* C38: in every committed state each run has at most one RUN_STARTED event and
\* at most one finalization event: RUN_COMPLETED and RUN_FAILED are never both
\* there for a run, and neither is there without a RUN_STARTED of the run
\* before it.
OneStartOneFinalization ==
    \A r \in Runs :
        LET At(t) == {i \in 1..Len(events) : events[i].run_id = r /\ events[i].type = t}
            final == At("RUN_COMPLETED") \cup At("RUN_FAILED")
        IN  /\ Cardinality(At("RUN_STARTED")) <= 1
            /\ Cardinality(final) <= 1
            /\ \A i \in final : \E j \in At("RUN_STARTED") : j < i

\* the phase events of a simple run, in order
PhaseEvents == <<"AGENT_THINKING", "PLAN_GENERATED", "EXECUTING">>

\* current_iteration of a simple run is within 0..4, a committed value is there
\* together with the events of the phases up to it and of no later phase, and
\* the value 4 together with RUN_COMPLETED
ProgressMatchesEvents ==
    \A r \in Runs :
        runs[r].run_type = "agent" =>
            /\ runs[r].current_iteration \in 0..4
            /\ \A k \in 1..3 :
                  HasEvent(r, PhaseEvents[k]) <=> runs[r].current_iteration >= k
            /\ runs[r].current_iteration = 4 => HasEvent(r, "RUN_COMPLETED")

\* the value 4 is there together with status COMPLETED
FourOnlyCompleted ==
    \A r \in Runs :
        runs[r].run_type = "agent" /\ runs[r].current_iteration = 4 =>
            runs[r].status = "COMPLETED"

\* current_iteration never decreases, and it becomes 4 in the commit that sets
\* COMPLETED and appends RUN_COMPLETED
ProgressGrows ==
    \A r \in Runs :
        /\ runs'[r].current_iteration >= runs[r].current_iteration
        /\ runs'[r].current_iteration = 4 /\ runs[r].current_iteration # 4 =>
              /\ runs'[r].status = "COMPLETED"
              /\ events' = Append(events, Event(r, "RUN_COMPLETED"))

WorkerNotifies == gpc = "post" /\ gpc' = "finally" /\ emitted' # emitted

\* the heartbeat thread is inside event_callback, appending and committing
\* HEARTBEAT on the same session
HeartbeatInCallback == heartbeat_thread = "calling"

=============================================================================
